---- MODULE Spec2Model ----
(***************************************************************************)
(* Structure synchronization engine of the hetida designer structure      *)
(* service: update_structure / delete_structure over the relational store *)
(* (runtime/hetdesrun/structure/db).                                       *)
(*                                                                         *)
(* The store is six tables: element_type, thing_node, source, sink and    *)
(* the two association tables.  A document is a CompleteStructure object  *)
(* whose entities carry the surrogate id they were constructed with.      *)
(*                                                                         *)
(* update_structure passes the pre-fetched maps to upsert_element_types,  *)
(* upsert_sources and upsert_sinks as extra arguments; the versions of    *)
(* these functions in element_type_service.py and source_sink_service.py  *)
(* do not take them and do not use them.  The phases are modelled by the  *)
(* bodies of these functions, called in update_structure's order.         *)
(***************************************************************************)
EXTENDS Integers, Sequences, FiniteSets, TLC

VARIABLES store, pre, doc, docErr, gen, fkOn, scenario, last, sessions

vars == <<store, pre, doc, docErr, gen, fkOn, scenario, last, sessions>>

\* ------------------------------------------------------------------ bounds

\* Number of CompleteStructure objects constructed in one behaviour.
MaxDocs == 2

\* Longest thing_nodes list given to sort_thing_nodes on its own.
MaxSortLen == 3

\* Levels of the sorter's traversal whose output is kept: more than a
\* traversal that visits every node of a list of MaxSortLen nodes once can have.
MaxLevels == 4

\* Largest batch_size given to a batched fetch.
MaxBatchSize == 3

\* Longest id list given to a multi-fetch by ids.
MaxIdListLen == 2

\* ------------------------------------------------------------ value universe

\* Python's None for a UUID field.
None == <<>>

\* No update_structure call is under way in a session of its own.
NoSessions == <<>>

\* Python's None (or empty string) for parent_external_node_id: both are falsy
\* in `if tn.parent_external_node_id:`.
NoParent == ""

A == <<"s1", "a">>
B == <<"s1", "b">>
C == <<"s1", "c">>
A2 == <<"s2", "a">>
B2 == <<"s2", "b">>
C2 == <<"s2", "c">>
T1 == <<"s1", "t">>
U1 == <<"s1", "u">>
T2 == <<"s2", "t">>
S1 == <<"s1", "x">>
S2 == <<"s2", "x">>
S3 == <<"s1", "z">>
K1 == <<"s1", "y">>
K3 == <<"s1", "w">>

\* A name that is no entity's key.
M == <<"s1", "m">>

\* Python's order of the external_id strings used as thing node ids.
ExtRank(e) == CASE e = "a" -> 1 [] e = "b" -> 2 [] e = "c" -> 3 [] OTHER -> 4

Range(s) == {s[i] : i \in DOMAIN s}

\* All sequences without repetition over the set S of length at most n.
RECURSIVE DistinctSeqs(_, _)
DistinctSeqs(S, n) ==
    IF n = 0 \/ S = {} THEN {<<>>}
    ELSE {<<>>} \cup UNION {{<<x>> \o t : t \in DistinctSeqs(S \ {x}, n - 1)} : x \in S}

\* Subsequence of s at the indices in I, in the order of s (a list comprehension
\* or an append loop over s with a filter).
RECURSIVE SelectFrom(_, _, _)
SelectFrom(s, i, I) ==
    IF i > Len(s) THEN <<>>
    ELSE (IF i \in I THEN <<s[i]>> ELSE <<>>) \o SelectFrom(s, i + 1, I)

\* --------------------------------------------------------- hierarchy sorter

\* thing_node_map.get(key): the document node with this natural key (the last
\* one listed, as in a dict comprehension) as a one-element sequence, or <<>>
\* for None.
ThingNodeMapGet(tns, key) ==
    LET hits == {i \in DOMAIN tns : tns[i].key = key}
    IN IF hits = {} THEN <<>>
       ELSE <<tns[CHOOSE i \in hits : \A j \in hits : j <= i]>>

\* A sorter that keeps the ids of the document object.
AssignExistingIdsKeepsNew(tns, existing) == tns

\* First loop: adopt the surrogate id of the stored record with the same key.
AssignExistingIds(tns, existing) ==
    [i \in DOMAIN tns |->
        IF tns[i].key \in DOMAIN existing
        THEN [tns[i] EXCEPT !.id = existing[tns[i].key].id]
        ELSE tns[i]]

ParentKey(tn) == <<tn.key[1], tn.parent_ext>>

\* parent_tn of the second loop: <<>> for roots and for orphans.
ParentTn(tns, tn) ==
    IF tn.parent_ext = NoParent THEN <<>> ELSE ThingNodeMapGet(tns, ParentKey(tn))

\* A sorter that leaves parent_node_id as the document object has it.
LinkParentsNever(tns) == tns

\* Second loop: tn.parent_node_id = parent_tn.id where the parent is in the document.
LinkParents(tns) ==
    [i \in DOMAIN tns |->
        IF ParentTn(tns, tns[i]) # <<>>
        THEN [tns[i] EXCEPT !.parent_node_id = ParentTn(tns, tns[i])[1].id]
        ELSE tns[i]]

\* A sorter that takes every node without a parent in the document as a root.
RootNodesWithOrphans(tns) ==
    SelectFrom(tns, 1, {i \in DOMAIN tns : ParentTn(tns, tns[i]) = <<>>})

\* root_nodes: the nodes without parent reference, in document order.
RootNodes(tns) ==
    SelectFrom(tns, 1, {i \in DOMAIN tns : tns[i].parent_ext = NoParent})

\* children_by_node_id.get(id, []): in document order.
ChildrenByNodeId(tns, id) ==
    SelectFrom(tns, 1, {i \in DOMAIN tns :
        ParentTn(tns, tns[i]) # <<>> /\ ParentTn(tns, tns[i])[1].id = id})

\* sorted(children, key=lambda x: x.external_id): stable insertion sort.
RECURSIVE InsertByExt(_, _)
InsertByExt(sortedSeq, tn) ==
    IF sortedSeq = <<>> THEN <<tn>>
    ELSE IF ExtRank(tn.key[2]) < ExtRank(Head(sortedSeq).key[2])
         THEN <<tn>> \o sortedSeq
         ELSE <<Head(sortedSeq)>> \o InsertByExt(Tail(sortedSeq), tn)

\* A sort that leaves the children as the second loop appended them.
SortedAsAppended(s) == s

RECURSIVE SortedByExt(_)
SortedByExt(s) ==
    IF s = <<>> THEN <<>>
    ELSE InsertByExt(SortedByExt(SubSeq(s, 1, Len(s) - 1)), s[Len(s)])

\* next_level_nodes of one level of the breadth-first traversal.
RECURSIVE NextLevelNodes(_, _)
NextLevelNodes(tns, level) ==
    IF level = <<>> THEN <<>>
    ELSE SortedByExt(ChildrenByNodeId(tns, Head(level).id))
         \o NextLevelNodes(tns, Tail(level))

\* The while loop over the queue, flattened level by level.
RECURSIVE FlattenLevels(_, _)
FlattenLevels(tns, level) ==
    IF level = <<>> THEN <<>>
    ELSE level \o FlattenLevels(tns, NextLevelNodes(tns, level))

\* The thing_nodes list after sort_thing_nodes mutated its elements.
SortMutatedNodes(tns, existing) == LinkParents(AssignExistingIds(tns, existing))

\* A sorter that returns the nodes in document order.
SortKeepsDocumentOrder(tns, existing) == SortMutatedNodes(tns, existing)

\* sort_thing_nodes: the returned list.
sort_thing_nodes(tns, existing) ==
    LET m == SortMutatedNodes(tns, existing)
    IN FlattenLevels(m, RootNodes(m))

\* ------------------------------------------------------------------- store

EmptyStore ==
    [et |-> {}, tn |-> {}, src |-> {}, snk |-> {}, src_assoc |-> {}, snk_assoc |-> {}]

\* A session query filtered by natural keys: key -> row for the stored keys
\* (fetch_element_types, fetch_thing_nodes, fetch_sources, fetch_sinks; the
\* batches only split the query).
FetchByKeys(table, keys) ==
    [k \in {r.key : r \in {r \in table : r.key \in keys}} |->
        CHOOSE r \in table : r.key = k]

\* Tables without unique constraints.
UniqueUnchecked(table) == TRUE

\* Tables whose names are not unique.
UniqueOkWithoutName(table) ==
    \A r1, r2 \in table : (r1.id = r2.id \/ r1.key = r2.key) => r1 = r2

\* Unique constraints of one entity table: primary key, natural key, name.
UniqueOk(table) ==
    \A r1, r2 \in table :
        (r1.id = r2.id \/ r1.key = r2.key \/ r1.name = r2.name) => r1 = r2

\* An upsert whose SET clause also overwrites the id column.
OnConflictDoUpdateWithId(table, e) ==
    {r \in table : r.key # e.key}
        \cup {[id |-> e.id, key |-> e.key, name |-> e.name, descr |-> e.descr]}

\* INSERT ... ON CONFLICT (external_id, stakeholder_key) DO UPDATE SET <all
\* columns but id> for one row of element_type, source or sink.
OnConflictDoUpdate(table, e) ==
    IF \E r \in table : r.key = e.key
    THEN {IF r.key = e.key THEN [r EXCEPT !.name = e.name, !.descr = e.descr] ELSE r :
            r \in table}
    ELSE table \cup {[id |-> e.id, key |-> e.key, name |-> e.name, descr |-> e.descr]}

\* Except clauses that raise every failure of an upsert as an update error.
UpsertExceptAlwaysUpdateError(exc) == "DBUpdateError"

\* The except clauses of upsert_element_types, upsert_thing_nodes,
\* upsert_sources and upsert_sinks for an exception of the store: an
\* IntegrityError is raised as DBIntegrityError, any other exception as
\* DBUpdateError.
UpsertExcept(exc) ==
    IF exc = "IntegrityError" THEN "DBIntegrityError" ELSE "DBUpdateError"

\* The multi-row upsert statement, row by row; a violated unique constraint
\* raises IntegrityError and leaves the rows written so far to the rollback.
RECURSIVE UpsertRows(_, _, _)
UpsertRows(table, es, i) ==
    IF i > Len(es) THEN [rows |-> table, err |-> ""]
    ELSE LET t == OnConflictDoUpdate(table, es[i])
         IN IF UniqueOk(t) THEN UpsertRows(t, es, i + 1)
            ELSE [rows |-> table, err |-> "IntegrityError"]

\* upsert_element_types: nothing for an empty list, else the upsert statement.
upsert_element_types(st, elements) ==
    IF elements = <<>> THEN [st |-> st, err |-> ""]
    ELSE LET u == UpsertRows(st.et, elements, 1)
         IN [st |-> [st EXCEPT !.et = u.rows],
             err |-> IF u.err = "" THEN "" ELSE UpsertExcept(u.err)]

\* session.query(ElementType).filter_by(external_id, stakeholder_key).first()
ElementTypeOf(st, node) ==
    LET hits == {r \in st.et : r.key = <<node.key[1], node.et_ext>>}
    IN IF hits = {} THEN <<>> ELSE <<CHOOSE r \in hits : TRUE>>

\* The nodes of the loop of upsert_thing_nodes that are not skipped.
WrittenNodes(st, nodes) ==
    SelectFrom(nodes, 1, {i \in DOMAIN nodes : ElementTypeOf(st, nodes[i]) # <<>>})

\* An update branch that writes parent_node_id only where the document
\* names a parent.
UpdatedNodeKeepsParentOfRoots(st, db_node, node) ==
    [db_node EXCEPT !.name = node.name,
                    !.descr = node.descr,
                    !.et_id = ElementTypeOf(st, node)[1].id,
                    !.parent_node_id = IF node.parent_node_id = None THEN @
                                       ELSE node.parent_node_id,
                    !.parent_ext = node.parent_ext]

\* The update branch: the fields assigned to the loaded db_node.
UpdatedNode(st, db_node, node) ==
    [db_node EXCEPT !.name = node.name,
                    !.descr = node.descr,
                    !.et_id = ElementTypeOf(st, node)[1].id,
                    !.parent_node_id = node.parent_node_id,
                    !.parent_ext = node.parent_ext]

\* The create branch: the new row.
NewNode(st, node) ==
    [id |-> node.id, key |-> node.key, name |-> node.name, descr |-> node.descr,
     parent_node_id |-> node.parent_node_id, parent_ext |-> node.parent_ext,
     et_id |-> ElementTypeOf(st, node)[1].id, et_ext |-> node.et_ext]

\* Foreign keys of one thing_node row, checked when the statement runs.
NodeFkOk(st, table, r) ==
    /\ \E e \in st.et : e.id = r.et_id
    /\ r.parent_node_id = None \/ \E p \in table : p.id = r.parent_node_id

\* One UPDATE (the row with this primary key is replaced) or one INSERT.
WriteNodeRow(table, w) ==
    IF w.op = "update" THEN {x \in table : x.id # w.row.id} \cup {w.row}
    ELSE table \cup {w.row}

\* session.flush(): the unit of work emits the UPDATEs of the loaded rows
\* first, then the INSERTs of the added rows in the order they were added;
\* each statement checks the unique constraints and, where the database
\* enforces them, the foreign keys.
RECURSIVE FlushNodes(_, _, _, _, _)
FlushNodes(st, table, writes, i, fk) ==
    IF i > Len(writes) THEN [rows |-> table, err |-> ""]
    ELSE LET t == WriteNodeRow(table, writes[i])
             pkOk == writes[i].op = "insert" =>
                        ~ \E x \in table : x.id = writes[i].row.id
         IN IF pkOk /\ UniqueOk(t) /\ (fk => NodeFkOk(st, t, writes[i].row))
            THEN FlushNodes(st, t, writes, i + 1, fk)
            ELSE [rows |-> table, err |-> "IntegrityError"]

\* The statements the loop hands to the session for the written nodes w:
\* updates of the loaded rows, inserts of the new ones.
NodeWrites(st, w, existing) ==
    LET upd == SelectFrom(w, 1, {i \in DOMAIN w : w[i].key \in DOMAIN existing})
        ins == SelectFrom(w, 1, {i \in DOMAIN w : w[i].key \notin DOMAIN existing})
    IN [i \in DOMAIN upd |->
            [op |-> "update", row |-> UpdatedNode(st, existing[upd[i].key], upd[i])]]
       \o [i \in DOMAIN ins |-> [op |-> "insert", row |-> NewNode(st, ins[i])]]

\* The except clauses of upsert_thing_nodes on the result f of the flush.
NodesFlushed(st, f) ==
    [st |-> [st EXCEPT !.tn = f.rows],
     err |-> IF f.err = "" THEN "" ELSE UpsertExcept(f.err)]

\* upsert_thing_nodes(session, thing_nodes, existing_thing_nodes)
upsert_thing_nodes(st, nodes, existing, fk) ==
    NodesFlushed(st,
        FlushNodes(st, st.tn, NodeWrites(st, WrittenNodes(st, nodes), existing), 1, fk))

\* source_thingnode_mappings resolved against the session: the association
\* rows <<entity id, thing node id>> to insert for the given entities.
AssociationInsertData(entityTable, tnTable, withTnIds) ==
    {<<e.id, t.id>> : <<e, t>> \in
        {<<e, t>> \in entityTable \X tnTable :
            \E i \in DOMAIN withTnIds :
                /\ withTnIds[i].key = e.key
                /\ t.key[1] = e.key[1]
                /\ t.key[2] \in withTnIds[i].tn_ext_ids}}

\* A reconciliation that clears the association rows of every stored entity.
IdsToDeleteAll(entityTable, withTnIds) == {e.id : e \in entityTable}

\* source_ids_to_delete: the stored ids of the entities with a non-empty
\* thing_node_external_ids list.
IdsToDelete(entityTable, withTnIds) ==
    {e.id : e \in {e \in entityTable : \E i \in DOMAIN withTnIds : withTnIds[i].key = e.key}}

\* A reconciliation that inserts the links of an entity only if all of its
\* declared thing nodes resolve.
ReconcileAllOrNothing(assoc, entityTable, tnTable, entities) ==
    LET complete == SelectFrom(entities, 1,
                        {i \in DOMAIN entities :
                            /\ entities[i].tn_ext_ids # {}
                            /\ \A x \in entities[i].tn_ext_ids :
                                  \E t \in tnTable : t.key = <<entities[i].key[1], x>>})
    IN {a \in assoc : \A i \in DOMAIN entities :
                         entities[i].tn_ext_ids # {} =>
                             \A e \in entityTable : e.key = entities[i].key => e.id # a[1]}
       \cup AssociationInsertData(entityTable, tnTable, complete)

\* The association part of upsert_sources / upsert_sinks.
ReconcileAssociations(assoc, entityTable, tnTable, entities) ==
    LET withTnIds == SelectFrom(entities, 1,
                        {i \in DOMAIN entities : entities[i].tn_ext_ids # {}})
    IN IF withTnIds = <<>> THEN assoc
       ELSE {a \in assoc : a[1] \notin IdsToDelete(entityTable, withTnIds)}
            \cup AssociationInsertData(entityTable, tnTable, withTnIds)

\* The upsert statement of upsert_sources / upsert_sinks.  values([]) of an
\* empty list builds an INSERT of the column defaults only, which violates
\* the NOT NULL columns: IntegrityError.
UpsertEntityRows(table, entities) ==
    IF entities = <<>> THEN [rows |-> table, err |-> "IntegrityError"]
    ELSE UpsertRows(table, entities, 1)

upsert_sources(st, sources) ==
    LET u == UpsertEntityRows(st.src, sources)
    IN IF u.err # "" THEN [st |-> [st EXCEPT !.src = u.rows], err |-> UpsertExcept(u.err)]
       ELSE [st |-> [st EXCEPT !.src = u.rows,
                               !.src_assoc = ReconcileAssociations(
                                    st.src_assoc, u.rows, st.tn, sources)],
             err |-> ""]

upsert_sinks(st, sinks) ==
    LET u == UpsertEntityRows(st.snk, sinks)
    IN IF u.err # "" THEN [st |-> [st EXCEPT !.snk = u.rows], err |-> UpsertExcept(u.err)]
       ELSE [st |-> [st EXCEPT !.snk = u.rows,
                               !.snk_assoc = ReconcileAssociations(
                                    st.snk_assoc, u.rows, st.tn, sinks)],
             err |-> ""]

\* ---------------------------------------------------------------- documents

NoDoc == [ets |-> <<>>, tns |-> <<>>, srcs |-> <<>>, snks |-> <<>>, built |-> FALSE]

RawEt(key) == [key |-> key, name |-> key]
RawTn(key, parent, et) == [key |-> key, name |-> key, parent_ext |-> parent, et_ext |-> et]
RawEntity(key, tns) == [key |-> key, name |-> key, tn_ext_ids |-> tns]

RawDoc(ets, tns, srcs, snks) ==
    [ets |-> [i \in DOMAIN ets |-> RawEt(ets[i])], tns |-> tns, srcs |-> srcs, snks |-> snks]

\* Thing node lists over the keys ks with every choice of parent among ps.
TnLists(ks, ps) ==
    {[i \in DOMAIN ks |-> RawTn(ks[i], f[i], "t")] : f \in [DOMAIN ks -> ps]}

\* One or two nodes a and b, in either order: roots, a child listed before
\* or after its parent, a node naming itself, two nodes naming each other,
\* a node whose parent is not in the document, a root next to an orphan,
\* a node listed twice.
HierParents ==
    {<<NoParent, NoParent>>, <<NoParent, "a">>, <<"b", NoParent>>, <<"b", "a">>,
     <<"a", NoParent>>, <<NoParent, "b">>}

HierDocs ==
    {RawDoc(<<T1, T2>>, tns, <<RawEntity(S1, {"a"})>>, <<RawEntity(K1, {})>>) :
        tns \in {<<RawTn(A, p[1], "t"), RawTn(B, p[2], "t")>> : p \in HierParents}
                 \cup {<<RawTn(B, p[2], "t"), RawTn(A, p[1], "t")>> : p \in HierParents}
                 \cup TnLists(<<A>>, {NoParent, "b"}) \cup TnLists(<<B>>, {NoParent, "a"})
                 \cup {<<RawTn(A, NoParent, "t"), RawTn(B, "c", "t")>>,
                       <<RawTn(B, "c", "t"), RawTn(A, NoParent, "t")>>,
                       <<RawTn(A, NoParent, "t"), RawTn(A, NoParent, "t")>>}}

\* Three nodes listed children first (a chain, a forest or a cycle) and the
\* same external id in two stakeholders.
DeepDocs ==
    {RawDoc(<<T1, T2>>, tns, <<RawEntity(S1, {"a"})>>, <<RawEntity(K1, {"a"})>>) :
        tns \in {<<RawTn(C, pc, "t"), RawTn(B, "a", "t"), RawTn(A, pa, "t")>> :
                    pc \in {NoParent, "b"}, pa \in {NoParent, "c"}}
                 \cup TnLists(<<A, A2>>, {NoParent, "a"})}

SrcLists ==
    {<<>>, <<RawEntity(S1, {})>>, <<RawEntity(S1, {"a"})>>, <<RawEntity(S3, {"a", "b"})>>,
     <<RawEntity(S1, {}), RawEntity(S3, {"a"})>>,
     <<RawEntity(S1, {"a"}), RawEntity(S2, {"a"})>>}

SnkLists == {<<RawEntity(K1, L)>> : L \in {{}, {"a"}}}

\* Sources with every small list of declared thing nodes next to a sink that
\* declares one, and a sink with and without a declared thing node.
AssocDocs ==
    {RawDoc(<<T1, T2>>, tns, sl[1], sl[2]) :
        tns \in {<<>>, <<RawTn(A, NoParent, "t"), RawTn(B, "a", "t")>>},
        sl \in (SrcLists \X {<<RawEntity(K1, {"a"})>>})
                 \cup ({<<RawEntity(S1, {"a"})>>} \X SnkLists)}
    \cup {RawDoc(<<T1, T2>>, <<RawTn(A, NoParent, "t")>>,
                 <<RawEntity(S3, {"a", "b"})>>, <<RawEntity(K1, {"a", "b"})>>)}

\* Element types present, absent or changed.
TypeDocs ==
    {RawDoc(ets, tns, <<RawEntity(S1, {"a"})>>, <<RawEntity(K1, {})>>) :
        ets \in {<<>>, <<T1>>, <<T1, U1>>},
        tns \in {<<RawTn(A, NoParent, "t")>>, <<RawTn(A, NoParent, "u")>>,
                 <<RawTn(A, NoParent, "u"), RawTn(B, "a", "t")>>}}
    \cup {RawDoc(ets, <<RawTn(A, NoParent, "t"), RawTn(A2, NoParent, "t")>>,
                 <<RawEntity(S1, {"a"})>>, <<RawEntity(K1, {})>>) :
            ets \in {<<T2>>, <<T1, T2>>}}

\* Trees of two stakeholders: a child under a root of the other stakeholder,
\* a leaf under a chain of the other stakeholder, a chain that changes
\* stakeholder at its middle, and one tree per stakeholder with the same
\* external ids.
StakeholderDocs ==
    {RawDoc(<<T1, T2>>, tns, <<RawEntity(S1, {"a"})>>, <<RawEntity(K1, {})>>) :
        tns \in {<<RawTn(A, NoParent, "t"), RawTn(B2, "a", "t")>>,
                 <<RawTn(A, NoParent, "t"), RawTn(B, "a", "t"), RawTn(C2, "b", "t")>>,
                 <<RawTn(C2, "b", "t"), RawTn(B2, "a", "t"), RawTn(A, NoParent, "t")>>,
                 <<RawTn(A, NoParent, "t"), RawTn(A2, NoParent, "t"), RawTn(B2, "a", "t")>>,
                 <<RawTn(A, NoParent, "t"), RawTn(B, "a", "t"),
                   RawTn(A2, NoParent, "t"), RawTn(B2, "a", "t")>>}}

\* An entity of the input under the name n.
Named(e, n) == [e EXCEPT !.name = n]

\* Names next to keys: every entity under the name of its key, then per kind
\* a second entity under the name of the first, alone or next to it, and the
\* first under a new name before or after a second that takes its old one.
NameDocs ==
    LET ets(l) == [ets |-> l, tns |-> <<RawTn(A, NoParent, "t")>>,
                   srcs |-> <<RawEntity(S1, {"a"})>>, snks |-> <<RawEntity(K1, {})>>]
        tns(l) == [ets |-> <<RawEt(T1)>>, tns |-> l,
                   srcs |-> <<RawEntity(S1, {})>>, snks |-> <<RawEntity(K1, {})>>]
        srcs(l) == [ets |-> <<RawEt(T1)>>, tns |-> <<RawTn(A, NoParent, "t")>>,
                    srcs |-> l, snks |-> <<RawEntity(K1, {})>>]
        snks(l) == [ets |-> <<RawEt(T1)>>, tns |-> <<RawTn(A, NoParent, "t")>>,
                    srcs |-> <<RawEntity(S1, {"a"})>>, snks |-> l]
    IN {ets(<<RawEt(T1)>>),
        ets(<<RawEt(T1), Named(RawEt(U1), T1)>>),
        ets(<<Named(RawEt(T1), M), Named(RawEt(U1), T1)>>),
        ets(<<Named(RawEt(U1), T1), Named(RawEt(T1), M)>>),
        tns(<<RawTn(A, NoParent, "t"), Named(RawTn(B, "a", "t"), A)>>),
        tns(<<Named(RawTn(B, NoParent, "t"), A)>>),
        tns(<<Named(RawTn(B, NoParent, "t"), A), Named(RawTn(A, NoParent, "t"), M)>>),
        srcs(<<RawEntity(S1, {"a"}), Named(RawEntity(S3, {}), S1)>>),
        srcs(<<Named(RawEntity(S3, {}), S1)>>),
        snks(<<RawEntity(K1, {}), Named(RawEntity(K3, {}), K1)>>),
        snks(<<Named(RawEntity(K3, {}), K1), Named(RawEntity(K1, {}), M)>>)}

\* The documents of one deployment: a run synchronizes documents of one family.
Scenarios == {"hierarchy", "chains", "associations", "element_types", "stakeholders"}

\* Foreign keys are enforced by PostgreSQL and, on SQLite, only under
\* PRAGMA foreign_keys=ON; unenforced keys are explored where a referenced
\* row can be missing.
Deployments == (Scenarios \X {TRUE}) \cup {<<"element_types", FALSE>>}

RawDocs(s) ==
    CASE s = "hierarchy" -> HierDocs
      [] s = "chains" -> DeepDocs
      [] s = "associations" -> AssocDocs
      [] s = "stakeholders" -> StakeholderDocs
      [] s = "names" -> NameDocs
      [] OTHER -> TypeDocs

\* The uuid4 default of the id field of the i-th entity of a list of the
\* object built as number g: unique to the entity.
NewId(seq, i, g) ==
    IF \E j \in 1..(i - 1) : seq[j].key = seq[i].key
    THEN <<g, seq[i].key, i>>
    ELSE <<g, seq[i].key>>

\* CompleteStructure(**raw): every entity gets the uuid4 default of its id
\* field and the field values of the input; parent_node_id defaults to None.
Construct(raw, g) ==
    [ets |-> [i \in DOMAIN raw.ets |->
                [id |-> NewId(raw.ets, i, g), key |-> raw.ets[i].key,
                 name |-> raw.ets[i].name, descr |-> g]],
     tns |-> [i \in DOMAIN raw.tns |->
                [id |-> NewId(raw.tns, i, g), key |-> raw.tns[i].key,
                 name |-> raw.tns[i].name, descr |-> g,
                 parent_ext |-> raw.tns[i].parent_ext, et_ext |-> raw.tns[i].et_ext,
                 parent_node_id |-> None]],
     srcs |-> [i \in DOMAIN raw.srcs |->
                [id |-> NewId(raw.srcs, i, g), key |-> raw.srcs[i].key,
                 name |-> raw.srcs[i].name, descr |-> g,
                 tn_ext_ids |-> raw.srcs[i].tn_ext_ids]],
     snks |-> [i \in DOMAIN raw.snks |->
                [id |-> NewId(raw.snks, i, g), key |-> raw.snks[i].key,
                 name |-> raw.snks[i].name, descr |-> g,
                 tn_ext_ids |-> raw.snks[i].tn_ext_ids]],
     built |-> TRUE]

KeysOf(seq) == {seq[i].key : i \in DOMAIN seq}

\* ---------------------------------------------------------------- validator
\* The checks CompleteStructure runs on construction (structure/models.py).

Accepted == [kind |-> "", node |-> None]
Rejected(kind, node) == [kind |-> kind, node |-> node]

NoDuplicateKeys(seq) == \A i, j \in DOMAIN seq : seq[i].key = seq[j].key => i = j

\* The document node a parent reference names: the node of the same
\* stakeholder with this external id, else a node of another stakeholder.
ValidatorParent(tns, tn) ==
    LET same == {i \in DOMAIN tns : tns[i].key = <<tn.key[1], tn.parent_ext>>}
        other == {i \in DOMAIN tns : tns[i].key[2] = tn.parent_ext}
    IN IF tn.parent_ext = NoParent THEN <<>>
       ELSE IF same # {} THEN <<tns[CHOOSE i \in same : TRUE]>>
       ELSE IF other # {} THEN <<tns[CHOOSE i \in other : \A j \in other : i <= j]>>
       ELSE <<>>

\* A validator that accepts any parent reference.
HasInvalidParentNever(tns, tn) == FALSE

\* A parent reference that is set and names no node of the document.
HasInvalidParent(tns, tn) ==
    tn.parent_ext # NoParent /\ ValidatorParent(tns, tn) = <<>>

\* Walk the ancestor chain of tn: the key of the first node that is visited
\* a second time as a one-element sequence, <<>> if a root is reached.
RECURSIVE RevisitedNode(_, _, _)
RevisitedNode(tns, tn, visited) ==
    LET p == ValidatorParent(tns, tn)
    IN IF p = <<>> THEN <<>>
       ELSE IF p[1].key \in visited THEN <<p[1].key>>
       ELSE RevisitedNode(tns, p[1], visited \cup {p[1].key})

\* A validator that looks at a node's own stakeholder key only.
ChainStakeholdersOwnOnly(tns, tn, fuel) == {tn.key[1]}

\* The stakeholder keys met on the ancestor chain of tn (of an acyclic document).
RECURSIVE ChainStakeholders(_, _, _)
ChainStakeholders(tns, tn, fuel) ==
    LET p == ValidatorParent(tns, tn)
    IN IF p = <<>> \/ fuel = 0 THEN {tn.key[1]}
       ELSE {tn.key[1]} \cup ChainStakeholders(tns, p[1], fuel - 1)

\* First index of seq whose element is in the index set I.
FirstIn(I) == CHOOSE i \in I : \A j \in I : i <= j

ValidateStructure(d) ==
    LET badEt == {i \in DOMAIN d.tns :
                    <<d.tns[i].key[1], d.tns[i].et_ext>> \notin KeysOf(d.ets)}
        badParent == {i \in DOMAIN d.tns : HasInvalidParent(d.tns, d.tns[i])}
        cyclic == {i \in DOMAIN d.tns :
                    RevisitedNode(d.tns, d.tns[i], {d.tns[i].key}) # <<>>}
        mixed == {i \in DOMAIN d.tns :
                    Cardinality(ChainStakeholders(d.tns, d.tns[i], Len(d.tns))) > 1}
        badRef(seq) == {i \in DOMAIN seq :
                    \E e \in seq[i].tn_ext_ids : <<seq[i].key[1], e>> \notin KeysOf(d.tns)}
    IN IF d.ets = <<>> THEN Rejected("no_element_types", None)
       ELSE IF ~ (NoDuplicateKeys(d.ets) /\ NoDuplicateKeys(d.tns)
                  /\ NoDuplicateKeys(d.srcs) /\ NoDuplicateKeys(d.snks))
            THEN Rejected("duplicate_key", None)
       ELSE IF badEt # {} THEN Rejected("unknown_element_type", d.tns[FirstIn(badEt)].key)
       ELSE IF badParent # {}
            THEN Rejected("invalid_parent_reference", d.tns[FirstIn(badParent)].key)
       ELSE IF cyclic # {}
            THEN Rejected("circular_reference",
                    RevisitedNode(d.tns, d.tns[FirstIn(cyclic)],
                                  {d.tns[FirstIn(cyclic)].key})[1])
       ELSE IF mixed # {}
            THEN Rejected("inconsistent_stakeholder_key", d.tns[FirstIn(mixed)].key)
       ELSE IF badRef(d.srcs) # {}
            THEN Rejected("invalid_thing_node_reference", d.srcs[FirstIn(badRef(d.srcs))].key)
       ELSE IF badRef(d.snks) # {}
            THEN Rejected("invalid_thing_node_reference", d.snks[FirstIn(badRef(d.snks))].key)
       ELSE Accepted

\* -------------------------------------------------------------- transactions

\* Where a store failure (connection lost, operation timed out) strikes a call.
Phases == {"fetch", "element_types", "thing_nodes", "sources", "sinks", "commit"}
NoFault == "none"
Faults == {NoFault} \cup Phases

\* The exception of the store that a fault raises where it strikes.
StoreFailure == "OperationalError"

\* The errors of hetdesrun.structure.db.exceptions that update_structure
\* re-raises as they are.
DBErrors == {"DBIntegrityError", "DBConnectionError", "DBAssociationError",
             "DBUpdateError", "DBError"}

\* The except clauses of fetch_element_types, fetch_thing_nodes,
\* fetch_sources and fetch_sinks.
FetchExcept(exc) ==
    IF exc = "IntegrityError" THEN "DBIntegrityError" ELSE "DBError"

\* The except clauses of update_structure for what leaves its block.
UpdateExcept(exc) ==
    CASE exc = "IntegrityError" -> "DBIntegrityError"
      [] exc = "OperationalError" -> "DBConnectionError"
      [] exc \in DBErrors -> exc
      [] OTHER -> "DBError"

\* A session whose writes stay visible although the block raised.
SessionEndKeepsWrites(before, written, outcome) == written

\* `with get_session()() as session, session.begin()`: the block's writes are
\* committed if it ends normally and rolled back if it raises.
SessionEnd(before, written, outcome) ==
    IF outcome = "ok" THEN written ELSE before

\* An update_structure that writes the thing nodes first.
WritePhasesNodesFirst == <<"thing_nodes", "element_types", "sources", "sinks">>

\* The upsert calls of update_structure, in order.
WritePhases == <<"element_types", "thing_nodes", "sources", "sinks">>

\* One upsert call on the session state st.
RunPhase(phase, st, d, sorted_thing_nodes, existing_thing_nodes, fk) ==
    CASE phase = "element_types" -> upsert_element_types(st, d.ets)
      [] phase = "thing_nodes" ->
            upsert_thing_nodes(st, sorted_thing_nodes, existing_thing_nodes, fk)
      [] phase = "sources" -> upsert_sources(st, d.srcs)
      [] OTHER -> upsert_sinks(st, d.snks)

\* The upsert calls from the i-th on, stopping at the first one that raises,
\* then the commit at the end of the block.  work is the session's
\* uncommitted state when the block ends, at the call that ended it.
RECURSIVE RunPhases(_, _, _, _, _, _, _)
RECURSIVE AfterPhase(_, _, _, _, _, _, _)
RunPhases(i, st, d, sorted_thing_nodes, existing_thing_nodes, fault, fk) ==
    IF i > Len(WritePhases)
    THEN [work |-> st, at |-> i,
          outcome |-> IF fault = "commit" THEN UpdateExcept(StoreFailure) ELSE "ok",
          cause |-> IF fault = "commit" THEN StoreFailure ELSE ""]
    ELSE IF fault = WritePhases[i]
    THEN [work |-> st, at |-> i, outcome |-> UpdateExcept(UpsertExcept(StoreFailure)),
          cause |-> StoreFailure]
    ELSE AfterPhase(i, RunPhase(WritePhases[i], st, d, sorted_thing_nodes,
                                existing_thing_nodes, fk),
                    d, sorted_thing_nodes, existing_thing_nodes, fault, fk)

AfterPhase(i, r, d, sorted_thing_nodes, existing_thing_nodes, fault, fk) ==
    IF r.err # ""
    THEN [work |-> r.st, at |-> i, outcome |-> UpdateExcept(r.err), cause |-> "IntegrityError"]
    ELSE RunPhases(i + 1, r.st, d, sorted_thing_nodes, existing_thing_nodes, fault, fk)

\* What the block leaves behind: sort_thing_nodes runs after
\* upsert_element_types returned and mutates the document's thing nodes.
BlockResult(d, mutated, sorted_thing_nodes, r) ==
    IF r.at < 2
    THEN [work |-> r.work, at |-> r.at, doc |-> d, sorted |-> <<>>, outcome |-> r.outcome,
          cause |-> r.cause]
    ELSE [work |-> r.work, at |-> r.at, doc |-> [d EXCEPT !.tns = mutated],
          sorted |-> sorted_thing_nodes, outcome |-> r.outcome, cause |-> r.cause]

SortAndWrite(st, d, fault, fk, existing_thing_nodes, sorted_thing_nodes) ==
    BlockResult(d, SortMutatedNodes(d.tns, existing_thing_nodes), sorted_thing_nodes,
                RunPhases(1, st, d, sorted_thing_nodes, existing_thing_nodes, fault, fk))

FetchSortAndWrite(st, d, fault, fk, existing_thing_nodes) ==
    SortAndWrite(st, d, fault, fk, existing_thing_nodes,
                 sort_thing_nodes(d.tns, existing_thing_nodes))

\* The body of update_structure on the session state st; a failed fetch
\* raises DBError before anything is written.
UpdatePhases(st, d, fault, fk) ==
    IF fault = "fetch"
    THEN [work |-> st, at |-> 0, doc |-> d, sorted |-> <<>>,
          outcome |-> UpdateExcept(FetchExcept(StoreFailure)), cause |-> StoreFailure]
    ELSE FetchSortAndWrite(st, d, fault, fk, FetchByKeys(st.tn, KeysOf(d.tns)))

\* The session's end applied to the result r of the block.  work is the
\* session's state when the block ended and phases the upsert calls that
\* had returned by then.
BlockEnd(st, r) ==
    [store |-> SessionEnd(st, r.work, r.outcome), doc |-> r.doc,
     sorted |-> r.sorted, outcome |-> r.outcome,
     work |-> r.work, phases |-> SubSeq(WritePhases, 1, r.at - 1),
     at |-> r.at, cause |-> r.cause]

\* update_structure(complete_structure): the committed store afterwards, the
\* mutated document, the sorter's output and the outcome.
update_structure(st, d, fault, fk) == BlockEnd(st, UpdatePhases(st, d, fault, fk))

\* The foreign keys of the store: thing_node.element_type_id, thing_node
\* .parent_node_id and both columns of the two association tables.
ForeignKeysOk(st) ==
    /\ \A r \in st.tn :
          /\ \E e \in st.et : e.id = r.et_id
          /\ r.parent_node_id = None \/ \E q \in st.tn : q.id = r.parent_node_id
    /\ \A l \in st.src_assoc : (\E x \in st.src : x.id = l[1]) /\ (\E r \in st.tn : r.id = l[2])
    /\ \A l \in st.snk_assoc : (\E x \in st.snk : x.id = l[1]) /\ (\E r \in st.tn : r.id = l[2])

\* A wipe that starts with the referenced tables.
DeletionOrderReferencedFirst == <<"et", "tn", "snk", "src", "snk_assoc", "src_assoc">>

\* deletion_order of delete_structure.
deletion_order == <<"src_assoc", "snk_assoc", "src", "snk", "tn", "et">>

\* A wipe whose statements delete nothing.
DeleteTablesKeepsRows(st, order, n) == st

\* session.execute(delete(table)) for the first n tables of order.
RECURSIVE DeleteTables(_, _, _)
DeleteTables(st, order, n) ==
    IF n = 0 THEN st
    ELSE [DeleteTables(st, order, n - 1) EXCEPT ![order[n]] = {}]

\* The loop over deletion_order from the i-th statement on: a DELETE that
\* leaves a row referencing a deleted one raises IntegrityError where foreign
\* keys are enforced.  deleted lists the tables emptied so far.
RECURSIVE DeleteLoop(_, _, _, _)
DeleteLoop(st, order, i, fk) ==
    IF i > Len(order) THEN [work |-> DeleteTables(st, order, Len(order)), err |-> "",
                            deleted |-> order]
    ELSE IF fk /\ ForeignKeysOk(st) /\ ~ ForeignKeysOk(DeleteTables(st, order, i))
    THEN [work |-> DeleteTables(st, order, i - 1), err |-> "DBIntegrityError",
          deleted |-> SubSeq(order, 1, i - 1)]
    ELSE DeleteLoop(st, order, i + 1, fk)

\* The except clauses and the session's end on the result r of the loop; a
\* failing commit is an SQLAlchemyError: DBError.
DeleteEnd(st, r, fault) ==
    IF r.err # ""
    THEN [store |-> SessionEnd(st, r.work, r.err), outcome |-> r.err, deleted |-> r.deleted]
    ELSE IF fault # NoFault
    THEN [store |-> SessionEnd(st, r.work, "DBError"), outcome |-> "DBError",
          deleted |-> r.deleted]
    ELSE [store |-> SessionEnd(st, r.work, "ok"), outcome |-> "ok", deleted |-> r.deleted]

\* delete_structure: the six DELETE statements and the commit; the session
\* is closed without commit if one raises.
delete_structure(st, fault, fk) == DeleteEnd(st, DeleteLoop(st, deletion_order, 1, fk), fault)

\* An emptiness check that looks at the element types only.
IsDatabaseEmptyElementTypesOnly(st) == st.et = {}

\* is_database_empty(): no first row in any of the four entity tables.
is_database_empty(st) ==
    ~ (st.et # {} \/ st.tn # {} \/ st.src # {} \/ st.snk # {})

\* A loader that hands on whatever the file holds.
LoadWithoutValidation(raw, g) ==
    [outcome |-> "ok", doc |-> Construct(raw, g), verdict |-> ValidateStructure(raw)]

\* A loader that returns the object whatever the verdict.
LoadedIgnoringVerdict(raw, g, verdict) ==
    [outcome |-> "ok", doc |-> Construct(raw, g), verdict |-> verdict]

\* The loader's result for the validators' verdict on the file's content.
Loaded(raw, g, verdict) ==
    IF verdict = Accepted
    THEN [outcome |-> "ok", doc |-> Construct(raw, g), verdict |-> verdict]
    ELSE [outcome |-> "DBParsingError", doc |-> [Construct(raw, g) EXCEPT !.built = FALSE],
          verdict |-> verdict]

\* A file whose content is not JSON.
NotJson == [ets |-> <<>>, tns |-> <<>>, srcs |-> <<>>, snks |-> <<>>, malformed |-> TRUE]

\* json.load and CompleteStructure(**structure_json) on the file's content:
\* the JSONDecodeError of the one or the ValidationError of the other.
ParseVerdict(raw) ==
    IF raw = NotJson THEN Rejected("json_decode_error", None) ELSE ValidateStructure(raw)

\* load_structure_from_json_file(path): json.load, then
\* CompleteStructure(**structure_json); the JSONDecodeError and the
\* validators' ValidationError are raised as DBParsingError.
load_structure_from_json_file(raw, g) == Loaded(raw, g, ParseVerdict(raw))

\* The configurations of the adapter at startup: the three flags and the
\* structure given through the file or through the environment variable.
\* The variable's value is a CompleteStructure the settings have validated;
\* raw is not read where nothing is provided.
PrepopulationConfigs(s) ==
    {[enabled |-> FALSE, overwrite |-> o, via_file |-> FALSE, provided |-> FALSE,
      raw |-> NotJson] : o \in BOOLEAN}
    \cup {[enabled |-> TRUE, overwrite |-> o, via_file |-> v, provided |-> FALSE,
           raw |-> NotJson] : o \in BOOLEAN, v \in BOOLEAN}
    \cup {[enabled |-> TRUE, overwrite |-> o, via_file |-> TRUE, provided |-> TRUE,
           raw |-> r] : o \in BOOLEAN, r \in RawDocs(s) \cup {NotJson}}
    \cup {[enabled |-> TRUE, overwrite |-> o, via_file |-> FALSE, provided |-> TRUE,
           raw |-> r] : o \in BOOLEAN,
                        r \in {x \in RawDocs(s) : ValidateStructure(x) = Accepted}}

\* retrieve_complete_structure_for_prepopulation(): the loader on the file,
\* or the object of the environment variable; ValueError where the chosen one
\* is not set.
retrieve_complete_structure_for_prepopulation(cfg, g) ==
    IF ~ cfg.provided
    THEN [outcome |-> "ValueError", doc |-> NoDoc, verdict |-> Accepted]
    ELSE IF cfg.via_file
    THEN load_structure_from_json_file(cfg.raw, g)
    ELSE [outcome |-> "ok", doc |-> Construct(cfg.raw, g), verdict |-> Accepted]

\* A startup that wipes whatever the flag says.
ShouldDeleteIgnoringFlag(cfg, st) == ~ is_database_empty(st)

\* The condition of prepopulate_structure under which delete_structure is
\* called.
ShouldDelete(cfg, st) ==
    cfg.overwrite /\ ~ is_database_empty(st)

\* The places where a store failure can strike during a startup: the commit
\* of delete_structure or a place of update_structure.
StartupFaults == Faults \cup {"delete_commit"}

\* The part of prepopulate_structure before update_structure: the store and
\* outcome after delete_structure where it is called.
DeleteIfOverwriting(st, cfg, fault, fk) ==
    IF ShouldDelete(cfg, st)
    THEN [called |-> TRUE] @@
         delete_structure(st, IF fault = "delete_commit" THEN "commit" ELSE NoFault, fk)
    ELSE [called |-> FALSE, store |-> st, outcome |-> "ok", deleted |-> <<>>]

\* -------------------------------------------------------------------- actions

IsUpdate(l) == l.op \in {"update", "update_from_file"}

\* The call before was a delete_structure that returned.
IsWipe(l) == l.op = "delete" /\ l.outcome = "ok"

Init ==
    /\ store = EmptyStore
    /\ pre = EmptyStore
    /\ doc = NoDoc
    /\ docErr = Accepted
    /\ gen = 0
    /\ \E d \in Deployments : scenario = d[1] /\ fkOn = d[2]
    /\ last = [op |-> "init", outcome |-> "ok", sorted |-> <<>>, rerun |-> FALSE]
    /\ sessions = NoSessions

\* A caller builds a CompleteStructure object; docErr is the validator's
\* verdict on it.  update_structure does not validate its argument.
BuildDocument(raw) ==
    /\ gen < MaxDocs
    /\ gen' = gen + 1
    /\ doc' = Construct(raw, gen + 1)
    /\ docErr' = ValidateStructure(raw)
    /\ pre' = store
    /\ last' = [op |-> "build", outcome |-> "ok", sorted |-> <<>>, rerun |-> FALSE]
    /\ UNCHANGED <<store, fkOn, scenario, sessions>>

\* The document just synchronized is built again from the same input: a new
\* object with the same field values, new uuid4 ids and no parent_node_id.
\* last keeps describing the last call made with this document.
ReloadDocument ==
    /\ gen < MaxDocs
    /\ IsUpdate(last) /\ last.outcome = "ok"
    /\ gen' = gen + 1
    /\ doc' = [ets |-> [i \in DOMAIN doc.ets |->
                          [doc.ets[i] EXCEPT !.id = NewId(doc.ets, i, gen + 1)]],
               tns |-> [i \in DOMAIN doc.tns |->
                          [doc.tns[i] EXCEPT !.id = NewId(doc.tns, i, gen + 1),
                                             !.parent_node_id = None]],
               srcs |-> [i \in DOMAIN doc.srcs |->
                          [doc.srcs[i] EXCEPT !.id = NewId(doc.srcs, i, gen + 1)]],
               snks |-> [i \in DOMAIN doc.snks |->
                          [doc.snks[i] EXCEPT !.id = NewId(doc.snks, i, gen + 1)]],
               built |-> TRUE]
    /\ UNCHANGED <<store, pre, docErr, fkOn, scenario, sessions, last>>

\* update_structure(doc)
UpdateStructure(fault) ==
    /\ doc.built
    /\ \E r \in {update_structure(store, doc, fault, fkOn)} :
          /\ store' = r.store
          /\ doc' = r.doc
          /\ last' = [op |-> "update", outcome |-> r.outcome, sorted |-> r.sorted,
                      rerun |-> (IsUpdate(last) /\ last.outcome = "ok"),
                      wiped |-> IsWipe(last),
                      wiped_rows |-> IsWipe(last) /\ pre # EmptyStore,
                      object |-> gen, work |-> r.work, phases |-> r.phases,
                      began |-> TRUE, at |-> r.at, cause |-> r.cause]
    /\ pre' = store
    /\ UNCHANGED <<docErr, gen, fkOn, scenario, sessions>>

\* update_structure_from_file(path): the loader's DBParsingError leaves before
\* update_structure is called; else update_structure runs on the new object.
\* doc keeps the rejected input, not built.
UpdateStructureFromFile(raw, fault) ==
    /\ gen < MaxDocs
    /\ gen' = gen + 1
    /\ pre' = store
    /\ \E loaded \in {load_structure_from_json_file(raw, gen + 1)} :
          /\ docErr' = loaded.verdict
          /\ IF loaded.outcome # "ok"
             THEN /\ last' = [op |-> "update_from_file", outcome |-> loaded.outcome,
                              sorted |-> <<>>, rerun |-> FALSE, began |-> FALSE]
                  /\ doc' = loaded.doc
                  /\ UNCHANGED store
             ELSE \E r \in {update_structure(store, loaded.doc, fault, fkOn)} :
                      /\ store' = r.store
                      /\ doc' = r.doc
                      /\ last' = [op |-> "update_from_file", outcome |-> r.outcome,
                                  sorted |-> r.sorted, rerun |-> FALSE,
                                  wiped |-> IsWipe(last),
                                  wiped_rows |-> IsWipe(last) /\ pre # EmptyStore,
                                  object |-> gen + 1, work |-> r.work,
                                  phases |-> r.phases, began |-> TRUE,
                                  at |-> r.at, cause |-> r.cause]
    /\ UNCHANGED <<fkOn, scenario, sessions>>

\* is_database_empty(): last keeps describing the last call that wrote, with
\* the answer added.
IsDatabaseEmpty ==
    /\ "is_empty" \notin DOMAIN last
    /\ last' = [is_empty |-> is_database_empty(store)] @@ last
    /\ UNCHANGED <<store, pre, doc, docErr, gen, fkOn, scenario, sessions>>

\* delete_structure()
DeleteStructure(fault) ==
    /\ \E r \in {delete_structure(store, fault, fkOn)} :
          /\ store' = r.store
          /\ last' = [op |-> "delete", outcome |-> r.outcome, sorted |-> <<>>,
                      rerun |-> FALSE, deleted |-> r.deleted]
    /\ pre' = store
    /\ UNCHANGED <<doc, docErr, gen, fkOn, scenario, sessions>>

Next ==
    \/ \E raw \in RawDocs(scenario) : BuildDocument(raw)
    \/ ReloadDocument
    \/ \E fault \in Faults : UpdateStructure(fault)
    \/ \E raw \in RawDocs(scenario) \cup {NotJson}, fault \in Faults :
          UpdateStructureFromFile(raw, fault)
    \/ \E fault \in {NoFault, "commit"} : DeleteStructure(fault)
    \/ IsDatabaseEmpty

Spec == Init /\ [][Next]_vars

\* The synchronizations of a deployment whose documents give names apart from
\* keys.
InitNames ==
    /\ store = EmptyStore
    /\ pre = EmptyStore
    /\ doc = NoDoc
    /\ docErr = Accepted
    /\ gen = 0
    /\ scenario = "names"
    /\ fkOn = TRUE
    /\ last = [op |-> "init", outcome |-> "ok", sorted |-> <<>>, rerun |-> FALSE]
    /\ sessions = NoSessions

SpecNames == InitNames /\ [][Next]_vars

\* ------------------------------------------------------------ the sorter alone

\* sort_thing_nodes on every list of up to MaxSortLen distinct thing nodes of
\* two stakeholders, in every order and with every parent reference, over a
\* store that is empty or holds a and b under older ids.
SortKeys == {A, B, C, A2}
SortParents == {NoParent, "a", "b", "c"}

SortInputs ==
    UNION {TnLists(ks, SortParents) : ks \in DistinctSeqs(SortKeys, MaxSortLen)}

StoredNode(key) ==
    [id |-> <<0, key>>, key |-> key, name |-> key, descr |-> 0, parent_node_id |-> None,
     parent_ext |-> NoParent, et_id |-> <<0, T1>>, et_ext |-> "t"]

SortStores == {EmptyStore, [EmptyStore EXCEPT !.tn = {StoredNode(A), StoredNode(B)}]}

InitSort ==
    /\ store \in SortStores
    /\ pre = store
    /\ \E tns \in SortInputs : doc = Construct(RawDoc(<<T1, T2>>, tns, <<>>, <<>>), 1)
    /\ docErr = Accepted
    /\ gen = 1
    /\ fkOn = TRUE
    /\ scenario = "hierarchy"
    /\ last = [op |-> "init", outcome |-> "ok", sorted |-> <<>>, rerun |-> FALSE]
    /\ sessions = NoSessions

\* sort_thing_nodes(doc.thing_nodes, existing_thing_nodes): returns the sorted
\* list and leaves the adopted ids and the parent ids in the document's nodes.
SortThingNodes ==
    /\ doc.built
    /\ LET existing_thing_nodes == FetchByKeys(store.tn, KeysOf(doc.tns))
       IN /\ last' = [op |-> "sort", outcome |-> "ok",
                      sorted |-> sort_thing_nodes(doc.tns, existing_thing_nodes),
                      rerun |-> last.op = "sort"]
          /\ doc' = [doc EXCEPT !.tns = SortMutatedNodes(doc.tns, existing_thing_nodes)]
    /\ UNCHANGED <<store, pre, docErr, gen, fkOn, scenario, sessions>>

NextSort == SortThingNodes

SpecSort == InitSort /\ [][NextSort]_vars

\* ------------------------------------------- populate_element_type_ids alone

\* key = (tn.stakeholder_key, tn.element_type_external_id)
ElementTypeKey(tn) == <<tn.key[1], tn.et_ext>>

\* populate_element_type_ids: the loop sets element_type_id where the key is in
\* the map and logs a warning where it is not; nothing is raised. A node
\* without element_type_external_id is passed over.
populate_element_type_ids(tns, existing_element_types) ==
    [tns |-> [i \in DOMAIN tns |->
                IF tns[i].et_ext # ""
                   /\ ElementTypeKey(tns[i]) \in DOMAIN existing_element_types
                THEN [tns[i] EXCEPT !.et_id =
                        existing_element_types[ElementTypeKey(tns[i])].id]
                ELSE tns[i]],
     warned |-> {tns[i].key : i \in {j \in DOMAIN tns :
                    tns[j].et_ext # ""
                    /\ ElementTypeKey(tns[j]) \notin DOMAIN existing_element_types}},
     raised |-> ""]

\* Thing nodes as populate_element_type_ids gets them: element_type_id unset or
\* set by the caller, element_type_external_id naming a type that may be
\* missing from the map, or empty.
PopulateNodes ==
    {[id |-> <<1, k>>, key |-> k, name |-> k, descr |-> 1, parent_node_id |-> None,
      parent_ext |-> NoParent, et_id |-> e, et_ext |-> x] :
        k \in {A, B, A2}, e \in {None, <<1, T1>>}, x \in {"", "t", "u"}}

PopulateLists ==
    {<<>>} \cup {<<n>> : n \in PopulateNodes}
           \cup {<<n, m>> : n \in PopulateNodes, m \in PopulateNodes}

StoredType(key) == [id |-> <<0, key>>, key |-> key, name |-> key, descr |-> 0]

PopulateStores ==
    {[EmptyStore EXCEPT !.et = {StoredType(k) : k \in ks}] :
        ks \in SUBSET {T1, T2, <<"s1", "u">>}}

InitPopulate ==
    /\ store \in PopulateStores
    /\ pre = store
    /\ \E tns \in PopulateLists :
        doc = [ets |-> <<>>, tns |-> tns, srcs |-> <<>>, snks |-> <<>>, built |-> TRUE]
    /\ docErr = Accepted
    /\ gen = 1
    /\ fkOn = TRUE
    /\ scenario = "populate"
    /\ last = [op |-> "init", outcome |-> "ok", sorted |-> <<>>, rerun |-> FALSE]
    /\ sessions = NoSessions

\* populate_element_type_ids(thing_nodes, existing_element_types) with the map
\* of the stored element types: the nodes are mutated in place.
PopulateElementTypeIds ==
    /\ LET r == populate_element_type_ids(doc.tns,
                    FetchByKeys(store.et, {e.key : e \in store.et}))
       IN /\ last' = [op |-> "populate",
                      outcome |-> IF r.raised = "" THEN "ok" ELSE r.raised,
                      sorted |-> r.tns, warned |-> r.warned, before |-> doc.tns,
                      rerun |-> last.op = "populate"]
          /\ doc' = [doc EXCEPT !.tns = r.tns]
    /\ UNCHANGED <<store, pre, docErr, gen, fkOn, scenario, sessions>>

NextPopulate == PopulateElementTypeIds

SpecPopulate == InitPopulate /\ [][NextPopulate]_vars

\* --------------------------------------------- the sorter's loop, step by step

\* sort_thing_nodes on every list of up to MaxSortLen thing nodes over the keys
\* a and b of one stakeholder, the same key more than once included, with
\* every parent reference. Each object of the list has a name of its own.
PositionNames == <<"1", "2", "3">>

TraversalKeySeqs == UNION {[1..n -> {A, B}] : n \in 0..MaxSortLen}

TraversalInputs ==
    {[i \in DOMAIN l |-> Named(l[i], <<"n", PositionNames[i]>>)] :
        l \in UNION {TnLists(ks, {NoParent, "a", "b"}) : ks \in TraversalKeySeqs}}

InitTraversal ==
    /\ store \in SortStores
    /\ pre = store
    /\ \E tns \in TraversalInputs : doc = Construct(RawDoc(<<T1, T2>>, tns, <<>>, <<>>), 1)
    /\ docErr = Accepted
    /\ gen = 1
    /\ fkOn = TRUE
    /\ scenario = "traversal"
    /\ last = [op |-> "init", outcome |-> "ok", sorted |-> <<>>, rerun |-> FALSE]
    /\ sessions = NoSessions

\* The call up to the while loop: the two loops over thing_nodes and
\* queue = deque([(root_nodes, 0)]).
SortBegin ==
    /\ last.op = "init"
    /\ LET m == SortMutatedNodes(doc.tns, FetchByKeys(store.tn, KeysOf(doc.tns)))
       IN /\ doc' = [doc EXCEPT !.tns = m]
          /\ last' = [op |-> "bfs", outcome |-> "running", sorted |-> <<>>,
                      queue |-> <<RootNodes(m)>>, level |-> 0, rerun |-> FALSE]
    /\ UNCHANGED <<store, pre, docErr, gen, fkOn, scenario, sessions>>

\* next_level_nodes without repetitions, in the order of first occurrence.
FirstOccurrences(nodes) ==
    SelectFrom(nodes, 1, {i \in DOMAIN nodes : \A j \in 1..(i - 1) : nodes[j] # nodes[i]})

\* One iteration of `while queue`: the level at the head is appended to the
\* output and the sorted children of its nodes are queued as the next level.
\* From level MaxLevels on the loop runs as before, but of a level only the
\* nodes it holds (which decide whether a next level is queued) and of its
\* number only the parity are kept, and the output is not extended.
SortLevel ==
    /\ last.op = "bfs"
    /\ last.queue # <<>>
    /\ \E current_level_nodes \in {Head(last.queue)} :
       \E next_level_nodes \in {NextLevelNodes(doc.tns, current_level_nodes)} :
       \E queued \in {IF last.level < MaxLevels THEN next_level_nodes
                      ELSE FirstOccurrences(next_level_nodes)} :
        last' = [last EXCEPT
            !.sorted = IF last.level < MaxLevels THEN @ \o current_level_nodes ELSE @,
            !.queue = IF queued = <<>> THEN <<>> ELSE <<queued>>,
            !.level = IF queued = <<>> THEN @
                      ELSE IF @ <= MaxLevels THEN @ + 1 ELSE MaxLevels]
    /\ UNCHANGED <<store, pre, doc, docErr, gen, fkOn, scenario, sessions>>

\* The queue is empty: the levels are flattened and returned.
SortReturn ==
    /\ last.op = "bfs"
    /\ last.queue = <<>>
    /\ last' = [last EXCEPT !.op = "sorted", !.outcome = "ok"]
    /\ UNCHANGED <<store, pre, doc, docErr, gen, fkOn, scenario, sessions>>

NextTraversal == SortBegin \/ SortLevel \/ SortReturn

SpecTraversal == InitTraversal /\ [][NextTraversal]_vars

\* The interpreter runs the call on: a step that can be taken is taken.
SpecTraversalFair == SpecTraversal /\ WF_vars(NextTraversal)

\* ------------------------------------------------------------------- reads

\* A get_children that also returns the sources and sinks of the children.
GetChildrenWithChildLinks(st, parent_id) ==
    [outcome |-> "ok",
     nodes |-> {r \in st.tn : r.parent_node_id = parent_id},
     sources |-> {x \in st.src : \E r \in st.tn :
                    (r.id = parent_id \/ r.parent_node_id = parent_id)
                    /\ <<x.id, r.id>> \in st.src_assoc},
     sinks |-> {x \in st.snk : \E r \in st.tn :
                    (r.id = parent_id \/ r.parent_node_id = parent_id)
                    /\ <<x.id, r.id>> \in st.snk_assoc}]

\* get_children(parent_id): the rows with this parent_node_id; for a given
\* parent the sources and sinks joined to it by the association tables, and
\* DBNotFoundError if no row has this id.  The queries have no ORDER BY:
\* the three lists are sets.
get_children(st, parent_id) ==
    IF parent_id = None
    THEN [outcome |-> "ok", nodes |-> {r \in st.tn : r.parent_node_id = None},
          sources |-> {}, sinks |-> {}]
    ELSE IF ~ \E r \in st.tn : r.id = parent_id
    THEN [outcome |-> "DBNotFoundError", nodes |-> {}, sources |-> {}, sinks |-> {}]
    ELSE [outcome |-> "ok",
          nodes |-> {r \in st.tn : r.parent_node_id = parent_id},
          sources |-> {x \in st.src : <<x.id, parent_id>> \in st.src_assoc},
          sinks |-> {x \in st.snk : <<x.id, parent_id>> \in st.snk_assoc}]

\* orm_get_children(parent_id) of db_structure_service: as get_children, but
\* ([], [], []) after a warning if no row has this id.
orm_get_children(st, parent_id) ==
    IF parent_id = None
    THEN [outcome |-> "ok", nodes |-> {r \in st.tn : r.parent_node_id = None},
          sources |-> {}, sinks |-> {}]
    ELSE IF ~ \E r \in st.tn : r.id = parent_id
    THEN [outcome |-> "ok", nodes |-> {}, sources |-> {}, sinks |-> {}]
    ELSE [outcome |-> "ok",
          nodes |-> {r \in st.tn : r.parent_node_id = parent_id},
          sources |-> {x \in st.src : <<x.id, parent_id>> \in st.src_assoc},
          sinks |-> {x \in st.snk : <<x.id, parent_id>> \in st.snk_assoc}]

\* The function the adapter's `from ...db_structure_service import
\* get_children` binds: the module defines orm_get_children, structure_service
\* defines get_children; which body a build runs under that name is open.
ImportedGetChildren(st, parent_id) ==
    {get_children(st, parent_id), orm_get_children(st, parent_id)}

\* math.ceil(n / b) for positive b.
Ceil(n, b) == (n + b - 1) \div b

\* list(iterable) of a set: its elements in some order.
RECURSIVE SeqOf(_)
SeqOf(S) ==
    IF S = {} THEN <<>>
    ELSE LET x == CHOOSE x \in S : TRUE IN <<x>> \o SeqOf(S \ {x})

\* itertools.batched(seq, n): consecutive chunks of n elements, the last one
\* shorter.
RECURSIVE Batched(_, _)
Batched(seq, n) ==
    IF seq = <<>> THEN <<>>
    ELSE IF Len(seq) <= n THEN <<seq>>
    ELSE <<SubSeq(seq, 1, n)>> \o Batched(SubSeq(seq, n + 1, Len(seq)), n)

\* batched(keys, ceil(len(keys) / batch_size)) of the fetch functions.
KeyBatches(xs, batch_size) == Batched(xs, Ceil(Len(xs), batch_size))

\* The loop over the batches from the i-th on: one query per batch, the rows
\* found entered into the mapping by key.
RECURSIVE MergeBatches(_, _, _, _)
MergeBatches(table, batches, i, mapping) ==
    IF i > Len(batches) THEN mapping
    ELSE MergeBatches(table, batches, i + 1,
                      FetchByKeys(table, Range(batches[i])) @@ mapping)

\* A resolver that stops after its first query.
FetchFirstBatchOnly(table, keys, batch_size) ==
    IF keys = {} THEN [existing |-> <<>>, queries |-> <<>>]
    ELSE [existing |-> FetchByKeys(table, Range(KeyBatches(SeqOf(keys), batch_size)[1])),
          queries |-> <<KeyBatches(SeqOf(keys), batch_size)[1]>>]

\* The queries issued for the batches and the mapping they fill.
FetchInBatches(table, batches) ==
    [existing |-> MergeBatches(table, batches, 1, <<>>), queries |-> batches]

\* fetch_element_types / fetch_thing_nodes(session, keys, batch_size) on the
\* rows of one table: the mapping returned and the key batches queried.
FetchBatched(table, keys, batch_size) ==
    IF keys = {} THEN [existing |-> <<>>, queries |-> <<>>]
    ELSE FetchInBatches(table, KeyBatches(SeqOf(keys), batch_size))

fetch_element_types(st, keys, batch_size) == FetchBatched(st.et, keys, batch_size)

fetch_thing_nodes(st, keys, batch_size) == FetchBatched(st.tn, keys, batch_size)

\* The rows of one batch query by id, entered into the mapping by id.
RowsById(table, ids) == [i \in {r.id : r \in table} \cap ids |-> CHOOSE r \in table : r.id = i]

\* The loop over the id batches from the i-th on.
RECURSIVE MergeIdBatches(_, _, _, _)
MergeIdBatches(table, batches, i, mapping) ==
    IF i > Len(batches) THEN mapping
    ELSE MergeIdBatches(table, batches, i + 1,
                        RowsById(table, Range(batches[i])) @@ mapping)

\* The end of a multi-fetch: DBNotFoundError if the mapping stayed empty.
CollectionResult(found, batches) ==
    IF DOMAIN found = {}
    THEN [outcome |-> "DBNotFoundError", found |-> <<>>, queries |-> batches]
    ELSE [outcome |-> "ok", found |-> found, queries |-> batches]

\* A multi-fetch that signals not-found as soon as one id has no record.
FetchCollectionAllOrNothing(table, ids, batch_size) ==
    IF ids = <<>> THEN [outcome |-> "ok", found |-> <<>>, queries |-> <<>>]
    ELSE IF Range(ids) \subseteq {r.id : r \in table}
    THEN [outcome |-> "ok", found |-> RowsById(table, Range(ids)),
          queries |-> KeyBatches(ids, batch_size)]
    ELSE [outcome |-> "DBNotFoundError", found |-> <<>>,
          queries |-> KeyBatches(ids, batch_size)]

\* The queries of a multi-fetch and what they find.
CollectionInBatches(table, batches) ==
    CollectionResult(MergeIdBatches(table, batches, 1, <<>>), batches)

\* fetch_collection_of_sources_from_db_by_id / ..._sinks_...(ids, batch_size)
\* on the rows of one table.
FetchCollection(table, ids, batch_size) ==
    IF ids = <<>> THEN [outcome |-> "ok", found |-> <<>>, queries |-> <<>>]
    ELSE CollectionInBatches(table, KeyBatches(ids, batch_size))

fetch_collection_of_sources_from_db_by_id(st, src_ids, batch_size) ==
    FetchCollection(st.src, src_ids, batch_size)

fetch_collection_of_sinks_from_db_by_id(st, sink_ids, batch_size) ==
    FetchCollection(st.snk, sink_ids, batch_size)

\* fetch_single_thing_node_from_db_by_id / fetch_single_source_from_db_by_id /
\* fetch_single_sink_from_db_by_id on the rows of one table: the record with
\* this id, DBNotFoundError if there is none.
FetchSingle(table, id) ==
    IF \E r \in table : r.id = id
    THEN [outcome |-> "ok", value |-> CHOOSE r \in table : r.id = id]
    ELSE [outcome |-> "DBNotFoundError", value |-> None]

\* The except clause of get_single_thingnode / get_single_source /
\* get_single_sink: DBNotFoundError is logged and None returned.
SingleOrNone(fetched) ==
    IF fetched.outcome = "DBNotFoundError"
    THEN [outcome |-> "ok", value |-> None]
    ELSE fetched

get_single_thingnode(st, tn_id) == SingleOrNone(FetchSingle(st.tn, tn_id))

get_single_source(st, src_id) == SingleOrNone(FetchSingle(st.src, src_id))

get_single_sink(st, sink_id) == SingleOrNone(FetchSingle(st.snk, sink_id))

\* The statuses the framework can answer with when an endpoint declared with
\* a response model returns None: the response validation fails (500), or,
\* where it lets null through, the null body is sent (200).
NoneStatuses == {200, 500}

\* The statuses of a get_single_..._endpoint for what the adapter function
\* gave: 404 for a DBNotFoundError, else the returned value as the response.
EndpointStatuses(got) ==
    IF got.outcome = "DBNotFoundError" THEN {404}
    ELSE IF got.value = None THEN NoneStatuses
    ELSE {200}

\* A chain root - mid - leaf with one source on the leaf.
ChainDoc ==
    RawDoc(<<T1, T2>>,
           <<RawTn(A, NoParent, "t"), RawTn(B, "a", "t"), RawTn(C, "b", "t")>>,
           <<RawEntity(S1, {"c"})>>, <<RawEntity(K1, {})>>)

ReadDocs == HierDocs \cup DeepDocs \cup AssocDocs \cup {ChainDoc}

\* The store after update_structure of the g-th object, built from raw.
StoreAfter(st, raw, g) == update_structure(st, Construct(raw, g), NoFault, TRUE).store

\* The stores that one or two synchronizations leave behind.
ReadStores ==
    {StoreAfter(EmptyStore, r, 1) : r \in ReadDocs}
        \cup {StoreAfter(StoreAfter(EmptyStore, ChainDoc, 1), r, 2) : r \in HierDocs}

\* An id no record was stored under.
UnknownId == <<0, A>>

InitRead ==
    /\ store \in ReadStores
    /\ pre = store
    /\ doc = NoDoc
    /\ docErr = Accepted
    /\ gen = MaxDocs
    /\ fkOn = TRUE
    /\ scenario = "reads"
    /\ last = [op |-> "init", outcome |-> "ok", sorted |-> <<>>, rerun |-> FALSE]
    /\ sessions = NoSessions

\* get_children(parent_id) on the store; last keeps the argument and the reply.
GetChildren(parent_id) ==
    /\ \E r \in {get_children(store, parent_id)} :
          last' = [op |-> "get_children", outcome |-> r.outcome, sorted |-> <<>>,
                   rerun |-> FALSE, arg |-> parent_id, nodes |-> r.nodes,
                   sources |-> r.sources, sinks |-> r.sinks]
    /\ UNCHANGED <<store, pre, doc, docErr, gen, fkOn, scenario, sessions>>

\* orm_get_children(parent_id) on the store.
OrmGetChildren(parent_id) ==
    /\ \E r \in {orm_get_children(store, parent_id)} :
          last' = [op |-> "orm_get_children", outcome |-> r.outcome, sorted |-> <<>>,
                   rerun |-> FALSE, arg |-> parent_id, nodes |-> r.nodes,
                   sources |-> r.sources, sinks |-> r.sinks]
    /\ UNCHANGED <<store, pre, doc, docErr, gen, fkOn, scenario, sessions>>

\* get_structure(parent_id) of the adapter: the three lists of get_children
\* in a response object; an exception of get_children is not caught.
GetStructure(parent_id) ==
    /\ \E r \in ImportedGetChildren(store, parent_id) :
          last' = [op |-> "get_structure", outcome |-> r.outcome, sorted |-> <<>>,
                   rerun |-> FALSE, arg |-> parent_id, nodes |-> r.nodes,
                   sources |-> r.sources, sinks |-> r.sinks]
    /\ UNCHANGED <<store, pre, doc, docErr, gen, fkOn, scenario, sessions>>

\* The key sets and batch sizes given to the resolver.
ThingNodeKeySets == SUBSET {A, B, C, A2}
ElementTypeKeySets == SUBSET {T1, U1, T2}
BatchSizes == 1..MaxBatchSize

\* fetch_thing_nodes(session, keys, batch_size)
FetchThingNodes(keys, batch_size) ==
    /\ \E r \in {fetch_thing_nodes(store, keys, batch_size)} :
          last' = [op |-> "fetch_thing_nodes", outcome |-> "ok", sorted |-> <<>>,
                   rerun |-> FALSE, keys |-> keys, batch_size |-> batch_size,
                   table |-> store.tn, existing |-> r.existing, queries |-> r.queries]
    /\ UNCHANGED <<store, pre, doc, docErr, gen, fkOn, scenario, sessions>>

\* fetch_element_types(session, keys, batch_size)
FetchElementTypes(keys, batch_size) ==
    /\ \E r \in {fetch_element_types(store, keys, batch_size)} :
          last' = [op |-> "fetch_element_types", outcome |-> "ok", sorted |-> <<>>,
                   rerun |-> FALSE, keys |-> keys, batch_size |-> batch_size,
                   table |-> store.et, existing |-> r.existing, queries |-> r.queries]
    /\ UNCHANGED <<store, pre, doc, docErr, gen, fkOn, scenario, sessions>>

\* The id lists given to a multi-fetch on a table: up to MaxIdListLen ids,
\* stored or not, repeated or not.
IdLists(table) ==
    UNION {[1..n -> {r.id : r \in table} \cup {UnknownId}] : n \in 0..MaxIdListLen}

\* fetch_collection_of_sources_from_db_by_id(src_ids, batch_size)
FetchCollectionOfSources(src_ids, batch_size) ==
    /\ \E r \in {fetch_collection_of_sources_from_db_by_id(store, src_ids, batch_size)} :
          last' = [op |-> "fetch_collection_of_sources", outcome |-> r.outcome,
                   sorted |-> <<>>, rerun |-> FALSE, ids |-> src_ids,
                   batch_size |-> batch_size, table |-> store.src,
                   found |-> r.found, queries |-> r.queries]
    /\ UNCHANGED <<store, pre, doc, docErr, gen, fkOn, scenario, sessions>>

\* fetch_collection_of_sinks_from_db_by_id(sink_ids, batch_size)
FetchCollectionOfSinks(sink_ids, batch_size) ==
    /\ \E r \in {fetch_collection_of_sinks_from_db_by_id(store, sink_ids, batch_size)} :
          last' = [op |-> "fetch_collection_of_sinks", outcome |-> r.outcome,
                   sorted |-> <<>>, rerun |-> FALSE, ids |-> sink_ids,
                   batch_size |-> batch_size, table |-> store.snk,
                   found |-> r.found, queries |-> r.queries]
    /\ UNCHANGED <<store, pre, doc, docErr, gen, fkOn, scenario, sessions>>

\* The response of a single-record endpoint, recorded.
Responded(op, table, id, got, status) ==
    /\ last' = [op |-> op, outcome |-> "ok", sorted |-> <<>>, rerun |-> FALSE,
                arg |-> id, table |-> table, status |-> status, body |-> got.value]
    /\ UNCHANGED <<store, pre, doc, docErr, gen, fkOn, scenario, sessions>>

\* GET /thingNodes/{node_id}
GetSingleThingnodeEndpoint(node_id) ==
    \E got \in {get_single_thingnode(store, node_id)} :
        \E status \in EndpointStatuses(got) :
            Responded("get_single_thingnode_endpoint", store.tn, node_id, got, status)

\* GET /sources/{source_id}
GetSingleSourceEndpoint(source_id) ==
    \E got \in {get_single_source(store, source_id)} :
        \E status \in EndpointStatuses(got) :
            Responded("get_single_source_endpoint", store.src, source_id, got, status)

\* GET /sinks/{sink_id}
GetSingleSinkEndpoint(sink_id) ==
    \E got \in {get_single_sink(store, sink_id)} :
        \E status \in EndpointStatuses(got) :
            Responded("get_single_sink_endpoint", store.snk, sink_id, got, status)

NextRead ==
    \/ \E parent_id \in {None, UnknownId} \cup {r.id : r \in store.tn} : GetChildren(parent_id)
    \/ \E parent_id \in {None, UnknownId} \cup {r.id : r \in store.tn} :
          OrmGetChildren(parent_id)
    \/ \E parent_id \in {None, UnknownId} \cup {r.id : r \in store.tn} :
          GetStructure(parent_id)
    \/ \E keys \in ThingNodeKeySets, batch_size \in BatchSizes :
          FetchThingNodes(keys, batch_size)
    \/ \E keys \in ElementTypeKeySets, batch_size \in BatchSizes :
          FetchElementTypes(keys, batch_size)
    \/ \E src_ids \in IdLists(store.src), batch_size \in BatchSizes :
          FetchCollectionOfSources(src_ids, batch_size)
    \/ \E sink_ids \in IdLists(store.snk), batch_size \in BatchSizes :
          FetchCollectionOfSinks(sink_ids, batch_size)
    \/ \E node_id \in {UnknownId} \cup {r.id : r \in store.tn} :
          GetSingleThingnodeEndpoint(node_id)
    \/ \E source_id \in {UnknownId} \cup {r.id : r \in store.src} :
          GetSingleSourceEndpoint(source_id)
    \/ \E sink_id \in {UnknownId} \cup {r.id : r \in store.snk} :
          GetSingleSinkEndpoint(sink_id)

SpecRead == InitRead /\ [][NextRead]_vars

\* ------------------------------------------------------------- the startup

\* The stores a startup finds: an empty one, or what a synchronization of a
\* document of the deployment has left behind.
StartupStores(s) ==
    {EmptyStore} \cup {StoreAfter(EmptyStore, r, 1) : r \in RawDocs(s)}

InitStartup ==
    /\ \E d \in Deployments : scenario = d[1] /\ fkOn = d[2]
    /\ store \in StartupStores(scenario)
    /\ pre = store
    /\ doc = NoDoc
    /\ docErr = Accepted
    /\ gen = 1
    /\ last = [op |-> "init", outcome |-> "ok", sorted |-> <<>>, rerun |-> FALSE]
    /\ sessions = NoSessions

\* What last records of a prepopulate_structure call.
Startup(cfg, outcome, retrieved, delete_called, update_called) ==
    [op |-> "prepopulate", outcome |-> outcome, sorted |-> <<>>, rerun |-> FALSE,
     enabled |-> cfg.enabled, overwrite |-> cfg.overwrite, retrieved |-> retrieved,
     delete_called |-> delete_called, update_called |-> update_called]

\* prepopulate_structure() at startup under the configuration cfg: return if
\* not enabled; retrieve the structure; delete_structure if overwriting a
\* store that is not empty; update_structure.  Each call has its own session,
\* an exception of one leaves before the next.
PrepopulateStructure(cfg, fault) ==
    /\ gen < MaxDocs
    /\ pre' = store
    /\ IF ~ cfg.enabled
       THEN /\ last' = Startup(cfg, "ok", FALSE, FALSE, FALSE)
            /\ UNCHANGED <<store, doc, docErr, gen>>
       ELSE /\ gen' = gen + 1
            /\ \E loaded \in {retrieve_complete_structure_for_prepopulation(cfg, gen + 1)} :
                  /\ docErr' = loaded.verdict
                  /\ IF loaded.outcome # "ok"
                     THEN /\ last' = Startup(cfg, loaded.outcome, FALSE, FALSE, FALSE)
                          /\ doc' = loaded.doc
                          /\ UNCHANGED store
                     ELSE \E del \in {DeleteIfOverwriting(store, cfg, fault, fkOn)} :
                             IF del.outcome # "ok"
                             THEN /\ last' = Startup(cfg, del.outcome, TRUE, TRUE, FALSE)
                                  /\ doc' = loaded.doc
                                  /\ store' = del.store
                             ELSE \E r \in {update_structure(del.store, loaded.doc,
                                               IF fault = "delete_commit" THEN NoFault
                                               ELSE fault, fkOn)} :
                                     /\ last' = Startup(cfg, r.outcome, TRUE, del.called, TRUE)
                                     /\ doc' = r.doc
                                     /\ store' = r.store
    /\ UNCHANGED <<fkOn, scenario, sessions>>

NextStartup ==
    \E cfg \in PrepopulationConfigs(scenario), fault \in StartupFaults :
        PrepopulateStructure(cfg, fault)

SpecStartup == InitStartup /\ [][NextStartup]_vars

\* ------------------------------------------------- concurrent synchronizations

\* Two update_structure calls, each in a session and transaction of its own,
\* interleaved statement by statement.  The store variable is the committed
\* state; a session reads the committed rows and its own writes (READ
\* COMMITTED) and keeps its writes as the difference delta to the committed
\* state until it commits.  A statement that writes a row another open
\* transaction has written waits for that transaction to end.

\* PostgreSQL locks the rows written; SQLite locks the database for the one
\* transaction that writes.
Engines == {"postgresql", "sqlite"}

Tables == {"et", "tn", "src", "snk", "src_assoc", "snk_assoc"}

NoDelta == [t \in Tables |-> [del |-> {}, ins |-> {}]]

\* What the session reads: the committed rows with its own writes applied.
View(committed, delta) ==
    [t \in Tables |-> (committed[t] \ delta[t].del) \cup delta[t].ins]

\* The session's writes after a statement left its view as written.
DeltaTo(committed, written) ==
    [t \in Tables |-> [del |-> committed[t] \ written[t], ins |-> written[t] \ committed[t]]]

\* Documents of concurrent callers: the roots a and b in either order or a
\* alone, with the element type listed or left to the store, and a source of
\* the caller's own.
ConcurrentDocs ==
    {RawDoc(ets, tns, <<RawEntity(src, {"a"})>>, <<RawEntity(K1, {})>>) :
        ets \in {<<>>, <<T1>>},
        tns \in {<<RawTn(A, NoParent, "t")>>,
                 <<RawTn(A, NoParent, "t"), RawTn(B, NoParent, "t")>>,
                 <<RawTn(B, NoParent, "t"), RawTn(A, NoParent, "t")>>},
        src \in {S1, S3}}

\* What an earlier synchronization without thing nodes has left behind.
TypesOnlyStore ==
    StoreAfter(EmptyStore,
               RawDoc(<<T1>>, <<>>, <<RawEntity(S1, {})>>, <<RawEntity(K1, {})>>), 0)

\* A session that has entered the block of update_structure with the object
\* d, built as number g.
NewSession(d, g) ==
    [pc |-> "fetch", doc |-> d, object |-> g, existing |-> <<>>, sorted |-> <<>>,
     writes |-> <<>>, at |-> 1, locks |-> {}, delta |-> NoDelta, attempted |-> {},
     absent |-> {}, outcome |-> ""]

InitConcurrent ==
    /\ store \in {EmptyStore, TypesOnlyStore}
    /\ pre = store
    /\ doc = NoDoc
    /\ docErr = Accepted
    /\ gen = MaxDocs
    /\ fkOn = TRUE
    /\ scenario = "concurrent"
    /\ last = [op |-> "init", outcome |-> "ok", sorted |-> <<>>, rerun |-> FALSE]
    /\ \E e \in Engines, r1 \in ConcurrentDocs, r2 \in ConcurrentDocs :
          sessions = [engine |-> e,
                      tx |-> <<NewSession(Construct(r1, 1), 1),
                               NewSession(Construct(r2, 2), 2)>>]

Other(i) == 3 - i

InFlight(s) == s.pc # "done"

\* The rows the next statement of the session s writes, as <<table, key>>.
LocksWanted(s) ==
    CASE s.pc = "element_types" -> {<<"et", k>> : k \in KeysOf(s.doc.ets)}
      [] s.pc = "flush" -> {<<"tn", s.writes[s.at].row.key>>}
      [] s.pc = "sources" -> {<<"src", k>> : k \in KeysOf(s.doc.srcs)}
      [] s.pc = "sinks" -> {<<"snk", k>> : k \in KeysOf(s.doc.snks)}
      [] OTHER -> {}

\* A store whose statements never wait for another transaction.
NeverBlocked(engine, s, o) == FALSE

\* The next statement of s has to wait for the open transaction o.
Blocked(engine, s, o) ==
    /\ InFlight(s) /\ InFlight(o)
    /\ LocksWanted(s) # {}
    /\ IF engine = "sqlite" THEN o.locks # {} ELSE LocksWanted(s) \cap o.locks # {}

\* The block is left by the exception exc: the session rolls back.
Raised(s, exc) ==
    [s EXCEPT !.pc = "done", !.outcome = UpdateExcept(exc), !.delta = NoDelta, !.locks = {}]

\* A statement of the helper left the session's view as written, or raised
\* err; next is the position after it.
Stated(s, committed, written, err, next) ==
    IF err # "" THEN Raised(s, err)
    ELSE [s EXCEPT !.pc = next, !.locks = @ \cup LocksWanted(s),
                   !.delta = DeltaTo(committed, written)]

\* The steps of session i change its record and, at commit, the store.
SessionStep(i, s) ==
    /\ sessions' = [sessions EXCEPT !.tx[i] = s]
    /\ UNCHANGED <<pre, doc, docErr, gen, fkOn, scenario, last>>

\* The four fetch calls at the start of the block; absent are the thing node
\* keys of the document read as not stored.
SessionFetch(i) ==
    /\ sessions # NoSessions /\ sessions.tx[i].pc = "fetch"
    /\ \E s \in {sessions.tx[i]} :
          \E existing \in {FetchByKeys(View(store, s.delta).tn, KeysOf(s.doc.tns))} :
             SessionStep(i, [s EXCEPT !.pc = "element_types", !.existing = existing,
                                      !.absent = KeysOf(s.doc.tns) \ DOMAIN existing])
    /\ UNCHANGED store

\* upsert_element_types in session i.
SessionUpsertElementTypes(i) ==
    /\ sessions # NoSessions /\ sessions.tx[i].pc = "element_types"
    /\ ~ Blocked(sessions.engine, sessions.tx[i], sessions.tx[Other(i)])
    /\ \E s \in {sessions.tx[i]} :
          \E r \in {upsert_element_types(View(store, s.delta), s.doc.ets)} :
             SessionStep(i, Stated(s, store, r.st, r.err, "thing_nodes"))
    /\ UNCHANGED store

\* sort_thing_nodes and the loop of upsert_thing_nodes in session i: the
\* rows are handed to the session, nothing is written yet.
SessionSortThingNodes(i) ==
    /\ sessions # NoSessions /\ sessions.tx[i].pc = "thing_nodes"
    /\ \E s \in {sessions.tx[i]} :
          \E sorted \in {sort_thing_nodes(s.doc.tns, s.existing)} :
             \E w \in {NodeWrites(View(store, s.delta),
                                  WrittenNodes(View(store, s.delta), sorted), s.existing)} :
                SessionStep(i, [s EXCEPT !.pc = IF w = <<>> THEN "sources" ELSE "flush",
                                         !.sorted = sorted, !.writes = w, !.at = 1,
                                         !.doc.tns = SortMutatedNodes(s.doc.tns, s.existing)])
    /\ UNCHANGED store

\* session.flush() in session i, one row at a time.
SessionFlushRow(i) ==
    /\ sessions # NoSessions /\ sessions.tx[i].pc = "flush"
    /\ ~ Blocked(sessions.engine, sessions.tx[i], sessions.tx[Other(i)])
    /\ \E s \in {sessions.tx[i]} :
          \E v \in {View(store, s.delta)} :
             \E f \in {NodesFlushed(v, FlushNodes(v, v.tn, <<s.writes[s.at]>>, 1, fkOn))} :
                SessionStep(i,
                    [Stated(s, store, f.st, f.err,
                            IF s.at = Len(s.writes) THEN "sources" ELSE "flush")
                        EXCEPT !.at = s.at + 1,
                               !.attempted = @ \cup
                                   (IF s.writes[s.at].op = "insert"
                                    THEN {s.writes[s.at].row.key} ELSE {})])
    /\ UNCHANGED store

\* upsert_sources in session i.
SessionUpsertSources(i) ==
    /\ sessions # NoSessions /\ sessions.tx[i].pc = "sources"
    /\ ~ Blocked(sessions.engine, sessions.tx[i], sessions.tx[Other(i)])
    /\ \E s \in {sessions.tx[i]} :
          \E r \in {upsert_sources(View(store, s.delta), s.doc.srcs)} :
             SessionStep(i, Stated(s, store, r.st, r.err, "sinks"))
    /\ UNCHANGED store

\* upsert_sinks in session i.
SessionUpsertSinks(i) ==
    /\ sessions # NoSessions /\ sessions.tx[i].pc = "sinks"
    /\ ~ Blocked(sessions.engine, sessions.tx[i], sessions.tx[Other(i)])
    /\ \E s \in {sessions.tx[i]} :
          \E r \in {upsert_sinks(View(store, s.delta), s.doc.snks)} :
             SessionStep(i, Stated(s, store, r.st, r.err, "commit"))
    /\ UNCHANGED store

\* The end of the block in session i: its writes are committed.
SessionCommit(i) ==
    /\ sessions # NoSessions /\ sessions.tx[i].pc = "commit"
    /\ \E s \in {sessions.tx[i]} :
          /\ store' = View(store, s.delta)
          /\ SessionStep(i, [s EXCEPT !.pc = "done", !.outcome = "ok",
                                      !.delta = NoDelta, !.locks = {}])

\* The store ends the wait of session i with an OperationalError inside the
\* helper that issued the statement: SQLite when its busy timeout expires,
\* PostgreSQL when both transactions wait for each other (deadlock detected).
SessionWaitAborted(i) ==
    /\ sessions # NoSessions
    /\ Blocked(sessions.engine, sessions.tx[i], sessions.tx[Other(i)])
    /\ \/ sessions.engine = "sqlite"
       \/ Blocked(sessions.engine, sessions.tx[Other(i)], sessions.tx[i])
    /\ \E s \in {sessions.tx[i]} :
          SessionStep(i, [Raised(s, UpsertExcept(StoreFailure))
                             EXCEPT !.attempted = @ \cup
                                 (IF s.pc = "flush" /\ s.writes[s.at].op = "insert"
                                  THEN {s.writes[s.at].row.key} ELSE {})])
    /\ UNCHANGED store

NextConcurrent ==
    \/ \E i \in 1..2 : SessionFetch(i)
    \/ \E i \in 1..2 : SessionUpsertElementTypes(i)
    \/ \E i \in 1..2 : SessionSortThingNodes(i)
    \/ \E i \in 1..2 : SessionFlushRow(i)
    \/ \E i \in 1..2 : SessionUpsertSources(i)
    \/ \E i \in 1..2 : SessionUpsertSinks(i)
    \/ \E i \in 1..2 : SessionCommit(i)
    \/ \E i \in 1..2 : SessionWaitAborted(i)

SpecConcurrent == InitConcurrent /\ [][NextConcurrent]_vars

\* --------------------------------------------------------------- properties

Keys(table) == {r.key : r \in table}
Ids(table) == {r.id : r \in table}
RowOf(table, key) == CHOOSE r \in table : r.key = key
UpdateFailed == IsUpdate(last) /\ last.outcome # "ok"
UpdateSucceeded == IsUpdate(last) /\ last.outcome = "ok"

\* C1: atomicity. Whenever update_structure fails, at whichever phase (key
\* resolution, an upsert, association reconciliation or the commit), the
\* committed store equals the store before the call.
C1_Atomicity == UpdateFailed => store = pre

\* A call that had inserted an element type and written thing nodes when the
\* commit failed, on a store that already held rows.
C1_Witness ==
    /\ IsUpdate(last) /\ last.outcome = "DBConnectionError"
    /\ last.sorted # <<>>
    /\ \E i \in DOMAIN doc.ets : doc.ets[i].key \notin Keys(pre.et)
    /\ pre.tn # {}
    /\ store = pre

\* C2: idempotence. When update_structure runs again with a valid document
\* whose previous run succeeded, on the same object or on one built again
\* from the same input, the run does not fail on the data and the store
\* (rows, ids, field values, association rows) stays as the first run left
\* it; no row and no association row is added.
C2_Idempotence ==
    (last.op = "update" /\ last.rerun /\ docErr = Accepted)
        => (store = pre /\ last.outcome # "DBIntegrityError")

\* A second successful run of a document with a parent/child pair and a
\* stored association, built again with new ids.
C2_Witness ==
    /\ UpdateSucceeded /\ last.rerun /\ docErr = Accepted
    /\ gen = 2
    /\ \E n \in store.tn : n.parent_node_id # None /\ n.id[1] = 1
    /\ store.src_assoc # {}
    /\ \E i \in DOMAIN doc.srcs : doc.srcs[i].id[1] = 2
    /\ store = pre

\* Rows of before whose natural key is none of the document's.
RowsNotIn(before, entities) == {r \in before : r.key \notin KeysOf(entities)}

\* Association rows of before that belong to an entity the document omits.
LinksNotIn(links, before, entities) ==
    {l \in links : \E r \in RowsNotIn(before, entities) : r.id = l[1]}

\* C3: no implicit deletion. A successful update_structure leaves every
\* stored row whose natural key is not in the document as it was, keeps
\* every association row of a source or sink that is not in the document,
\* and no operation but delete_structure makes a natural key disappear.
C3_NoImplicitDeletion ==
    /\ UpdateSucceeded =>
          /\ RowsNotIn(pre.et, doc.ets) \subseteq store.et
          /\ RowsNotIn(pre.tn, doc.tns) \subseteq store.tn
          /\ RowsNotIn(pre.src, doc.srcs) \subseteq store.src
          /\ RowsNotIn(pre.snk, doc.snks) \subseteq store.snk
          /\ LinksNotIn(pre.src_assoc, pre.src, doc.srcs) \subseteq store.src_assoc
          /\ LinksNotIn(pre.snk_assoc, pre.snk, doc.snks) \subseteq store.snk_assoc
    /\ last.op # "delete" =>
          /\ Keys(pre.et) \subseteq Keys(store.et)
          /\ Keys(pre.tn) \subseteq Keys(store.tn)
          /\ Keys(pre.src) \subseteq Keys(store.src)
          /\ Keys(pre.snk) \subseteq Keys(store.snk)

\* A successful run of a document that omits stored thing nodes and a stored
\* source with an association row, and does write an association of its own.
C3_Witness ==
    /\ UpdateSucceeded
    /\ store # pre
    /\ RowsNotIn(pre.tn, doc.tns) # {}
    /\ LinksNotIn(pre.src_assoc, pre.src, doc.srcs) # {}
    /\ \E i \in DOMAIN doc.srcs : doc.srcs[i].tn_ext_ids # {}

\* The association rows the declared list of entity e calls for: one per
\* declared external id that names a stored thing node of e's stakeholder.
DeclaredLinks(st, table, e) ==
    {<<r.id, n.id>> : r \in {r \in table : r.key = e.key},
                      n \in {n \in st.tn : n.key[1] = e.key[1] /\ n.key[2] \in e.tn_ext_ids}}

StoredLinks(assoc, table, e) ==
    {l \in assoc : \E r \in table : r.key = e.key /\ r.id = l[1]}

\* C4: association reconciliation. After a successful update_structure the
\* stored association rows of every source and sink of the document are
\* exactly those its declared thing_node_external_ids call for, whatever the
\* length of the list, the empty list included.
C4_AssociationsReconciled ==
    UpdateSucceeded =>
        /\ \A i \in DOMAIN doc.srcs :
              StoredLinks(store.src_assoc, store.src, doc.srcs[i])
                  = DeclaredLinks(store, store.src, doc.srcs[i])
        /\ \A i \in DOMAIN doc.snks :
              StoredLinks(store.snk_assoc, store.snk, doc.snks[i])
                  = DeclaredLinks(store, store.snk, doc.snks[i])

\* The same for the entities that declare at least one thing node, in a
\* document that has such an entity of that kind.
C4_NonEmptyListsReconciled ==
    UpdateSucceeded =>
        /\ \A i \in DOMAIN doc.srcs :
              doc.srcs[i].tn_ext_ids # {} =>
                  StoredLinks(store.src_assoc, store.src, doc.srcs[i])
                      = DeclaredLinks(store, store.src, doc.srcs[i])
        /\ \A i \in DOMAIN doc.snks :
              doc.snks[i].tn_ext_ids # {} =>
                  StoredLinks(store.snk_assoc, store.snk, doc.snks[i])
                      = DeclaredLinks(store, store.snk, doc.snks[i])

\* A source whose stored link is no longer declared: the valid document
\* lists the source with an empty thing_node_external_ids and the link is
\* still stored.
C4_StaleLinkKept ==
    /\ UpdateSucceeded /\ docErr = Accepted
    /\ \E i \in DOMAIN doc.srcs :
          /\ doc.srcs[i].tn_ext_ids = {}
          /\ StoredLinks(store.src_assoc, store.src, doc.srcs[i]) # {}

\* The nodes reached from node i of tns in one to n steps along the parent
\* relation (parent: the node of the same stakeholder with the external id
\* parent_external_node_id).
RECURSIVE Ancestors(_, _, _)
Ancestors(tns, i, n) ==
    LET up(I) == {j \in DOMAIN tns : \E k \in I : tns[j].key = ParentKey(tns[k])}
    IN IF n = 0 THEN {} ELSE up({i}) \cup up(Ancestors(tns, i, n - 1))

OnCycle(tns) == {i \in DOMAIN tns : i \in Ancestors(tns, i, Len(tns))}

C6_ParentBeforeChild ==
    last.op = "sort" =>
        \A i \in DOMAIN last.sorted :
            last.sorted[i].parent_ext # NoParent =>
                \E j \in 1..(i - 1) : last.sorted[j].key = ParentKey(last.sorted[i])

\* A chain of three nodes, each listed in the document before its parent,
\* returned parents first.
C6_Witness ==
    /\ last.op = "sort"
    /\ Len(last.sorted) = 3
    /\ last.sorted[2].key = ParentKey(last.sorted[3])
    /\ last.sorted[1].key = ParentKey(last.sorted[2])
    /\ doc.tns[1].key = last.sorted[3].key
    /\ doc.tns[2].key = last.sorted[2].key

\* The orphans of document d over the store before: the nodes whose parent
\* reference names no node of the document and no stored node.
Orphans(d, before) ==
    {i \in DOMAIN d.tns :
        /\ d.tns[i].parent_ext # NoParent
        /\ ParentKey(d.tns[i]) \notin KeysOf(d.tns)
        /\ ParentKey(d.tns[i]) \notin Keys(before.tn)}

Links(st) == st.src_assoc \cup st.snk_assoc

\* C7 as stated: orphan exclusion. After a successful update_structure an
\* orphan of the document is not in the list sort_thing_nodes returned and
\* no row with its natural key is in the store.
C7_OrphanAbsent ==
    UpdateSucceeded =>
        \A i \in Orphans(doc, pre) :
            /\ doc.tns[i].key \notin KeysOf(last.sorted)
            /\ doc.tns[i].key \notin Keys(store.tn)

\* C7, amended: after a successful update_structure an orphan of the
\* document is not in the list sort_thing_nodes returned and the call wrote
\* nothing for it: the rows with its natural key are those stored before
\* the call, unchanged, and if there was none, there is none afterwards and
\* no association row names the node.
C7_OrphanNotWritten ==
    UpdateSucceeded =>
        \A i \in Orphans(doc, pre) :
            /\ doc.tns[i].key \notin KeysOf(last.sorted)
            /\ {r \in store.tn : r.key = doc.tns[i].key}
                  = {r \in pre.tn : r.key = doc.tns[i].key}
            /\ doc.tns[i].key \notin Keys(pre.tn) =>
                  \A l \in Links(store) : l[2] # doc.tns[i].id

\* A successful run of a document with an orphan that was stored before
\* under the same key, next to a root that the run wrote.
C7_Witness ==
    /\ UpdateSucceeded
    /\ \E i \in Orphans(doc, pre) : doc.tns[i].key \in Keys(pre.tn)
    /\ \E r \in store.tn : r.descr = 2 /\ r \notin pre.tn

\* The stored row with the natural key of entity e carries e's field values.
ReadsBack(table, e) ==
    \E r \in table : r.key = e.key /\ r.name = e.name /\ r.descr = e.descr

ThingNodeReadsBack(table, e) ==
    \E r \in table :
        /\ r.key = e.key /\ r.name = e.name /\ r.descr = e.descr
        /\ r.parent_ext = e.parent_ext

\* C8: round trip. After a successful update_structure of a valid document
\* every element type, thing node, source and sink of the document is
\* stored under its natural key with the document's field values.
C8_RoundTrip ==
    (UpdateSucceeded /\ docErr = Accepted) =>
        /\ \A i \in DOMAIN doc.ets : ReadsBack(store.et, doc.ets[i])
        /\ \A i \in DOMAIN doc.tns :
              /\ ThingNodeReadsBack(store.tn, doc.tns[i])
              /\ RowOf(store.tn, doc.tns[i].key).et_ext = doc.tns[i].et_ext
        /\ \A i \in DOMAIN doc.srcs : ReadsBack(store.src, doc.srcs[i])
        /\ \A i \in DOMAIN doc.snks : ReadsBack(store.snk, doc.snks[i])

\* The same without the thing nodes' element_type_external_id.
C8_RoundTripOfOtherFields ==
    (UpdateSucceeded /\ docErr = Accepted) =>
        /\ \A i \in DOMAIN doc.ets : ReadsBack(store.et, doc.ets[i])
        /\ \A i \in DOMAIN doc.tns : ThingNodeReadsBack(store.tn, doc.tns[i])
        /\ \A i \in DOMAIN doc.srcs : ReadsBack(store.src, doc.srcs[i])
        /\ \A i \in DOMAIN doc.snks : ReadsBack(store.snk, doc.snks[i])

\* A thing node of a valid document whose stored row names another element
\* type than the document, while its element_type_id is that of the
\* document's element type.
C8_StaleElementTypeRef ==
    /\ UpdateSucceeded /\ docErr = Accepted
    /\ \E i \in DOMAIN doc.tns :
          LET r == RowOf(store.tn, doc.tns[i].key)
          IN /\ doc.tns[i].key \in Keys(store.tn)
             /\ r.et_ext # doc.tns[i].et_ext
             /\ r.et_id = RowOf(store.et, <<r.key[1], doc.tns[i].et_ext>>).id

\* Every row of before is still stored under the same natural key and id.
KeepsIds(before, after) ==
    \A r \in before : \E q \in after : q.key = r.key /\ q.id = r.id

\* Rows with an id that was not stored before have a natural key that was
\* not stored before, and no natural key is stored twice.
FreshIdsForNewKeys(before, after) ==
    /\ \A q \in after : q.id \notin Ids(before) => q.key \notin Keys(before)
    /\ \A q, r \in after : q.key = r.key => q = r

\* C9: surrogate-id stability. Across every operation but delete_structure,
\* in all four tables, a row whose natural key was stored keeps its id and
\* key, and an id that was not stored before belongs to a natural key that
\* was not stored before.
C9_IdStability ==
    last.op # "delete" =>
        /\ KeepsIds(pre.et, store.et) /\ FreshIdsForNewKeys(pre.et, store.et)
        /\ KeepsIds(pre.tn, store.tn) /\ FreshIdsForNewKeys(pre.tn, store.tn)
        /\ KeepsIds(pre.src, store.src) /\ FreshIdsForNewKeys(pre.src, store.src)
        /\ KeepsIds(pre.snk, store.snk) /\ FreshIdsForNewKeys(pre.snk, store.snk)

\* The second document, built with new ids, updated rows of all four kinds
\* under the ids of the first and inserted a thing node of its own.
C9_Witness ==
    /\ UpdateSucceeded /\ gen = 2
    /\ \E r \in store.et : r.id[1] = 1 /\ r.descr = 2
    /\ \E r \in store.tn : r.id[1] = 1 /\ r.descr = 2
    /\ \E r \in store.src : r.id[1] = 1 /\ r.descr = 2
    /\ \E r \in store.snk : r.id[1] = 1 /\ r.descr = 2
    /\ \E r \in store.tn : r.id[1] = 2
    /\ \E i \in DOMAIN doc.srcs : doc.srcs[i].id[1] = 2

\* The stored row of document node n has the parent id the document calls
\* for: none for a root, else the id of the stored node with the natural key
\* (n's stakeholder, n's parent_external_node_id).
ParentResolved(st, n) ==
    LET r == RowOf(st.tn, n.key)
    IN IF n.parent_ext = NoParent THEN r.parent_node_id = None
       ELSE /\ ParentKey(n) \in Keys(st.tn)
            /\ r.parent_node_id = RowOf(st.tn, ParentKey(n)).id

\* C10: parent resolution. After a successful update_structure of a valid
\* document every thing node of the document is stored and has the parent id
\* the document calls for, also where the parent was stored before under an
\* older id than the document object's.
C10_ParentResolved ==
    (UpdateSucceeded /\ docErr = Accepted) =>
        \A i \in DOMAIN doc.tns :
            /\ doc.tns[i].key \in Keys(store.tn)
            /\ ParentResolved(store, doc.tns[i])

\* A child inserted by the second document under a parent that the first
\* document stored: the child's parent id is the parent's older id.
C10_Witness ==
    /\ UpdateSucceeded /\ docErr = Accepted /\ gen = 2
    /\ \E i \in DOMAIN doc.tns :
          /\ doc.tns[i].parent_ext # NoParent
          /\ doc.tns[i].key \notin Keys(pre.tn)
          /\ ParentKey(doc.tns[i]) \in Keys(pre.tn)
          /\ RowOf(store.tn, doc.tns[i].key).id[1] = 2
          /\ RowOf(store.tn, doc.tns[i].key).parent_node_id[1] = 1

\* ----------------------------------------------------------------- C11

C12_Wipe ==
    (last.op = "delete" /\ last.outcome = "ok") =>
        /\ last.deleted = <<"src_assoc", "snk_assoc", "src", "snk", "tn", "et">>
        /\ ForeignKeysOk(pre) =>
              \A n \in 1..Len(last.deleted) : ForeignKeysOk(DeleteTables(pre, last.deleted, n))
        /\ \A t \in DOMAIN store : store[t] = {}

\* A successful wipe of a store that held rows in all six tables.
C12_Witness ==
    /\ last.op = "delete" /\ last.outcome = "ok"
    /\ \A t \in DOMAIN pre : pre[t] # {}
    /\ store = EmptyStore

\* ----------------------------------------------------------------- C13

\* The rows of table are those of the entities es of the document, one per
\* entity, under the entity's own id.
ExactlyOf(table, es) ==
    /\ Keys(table) = KeysOf(es)
    /\ \A r \in table : \E i \in DOMAIN es : es[i].key = r.key /\ es[i].id = r.id

\* C13: full replace. After a delete_structure followed by a successful
\* update_structure of a valid document D the stored natural keys of each
\* entity kind are exactly those of D, every row is D's (its id and field
\* values), and the association rows are exactly those D declares.  doc is
\* compared while it still is the object the call was made with.
C13_FullReplace ==
    (UpdateSucceeded /\ last.wiped /\ last.object = gen /\ docErr = Accepted) =>
        /\ ExactlyOf(store.et, doc.ets) /\ ExactlyOf(store.tn, doc.tns)
        /\ ExactlyOf(store.src, doc.srcs) /\ ExactlyOf(store.snk, doc.snks)
        /\ \A i \in DOMAIN doc.ets : ReadsBack(store.et, doc.ets[i])
        /\ \A i \in DOMAIN doc.tns : ThingNodeReadsBack(store.tn, doc.tns[i])
        /\ \A i \in DOMAIN doc.srcs : ReadsBack(store.src, doc.srcs[i])
        /\ \A i \in DOMAIN doc.snks : ReadsBack(store.snk, doc.snks[i])
        /\ store.src_assoc =
              UNION {DeclaredLinks(store, store.src, doc.srcs[i]) : i \in DOMAIN doc.srcs}
        /\ store.snk_assoc =
              UNION {DeclaredLinks(store, store.snk, doc.snks[i]) : i \in DOMAIN doc.snks}

\* A store with rows of an earlier document under older ids was wiped and a
\* different valid document with thing nodes and links was synchronized.
C13_Witness ==
    /\ UpdateSucceeded /\ last.wiped /\ last.wiped_rows /\ last.object = gen
    /\ docErr = Accepted
    /\ gen = 2 /\ \A r \in store.tn : r.descr = 2
    /\ store.tn # {} /\ store.src_assoc # {}

\* ----------------------------------------------------------------- C14

NaturalKeysUnique(table) == \A r1, r2 \in table : r1.key = r2.key => r1 = r2

\* C14: natural-key uniqueness. In every store state reached by any sequence
\* of update_structure and delete_structure calls, successful or failed, no
\* two rows of the same entity kind share (stakeholder_key, external_id).
C14_NaturalKeysUnique ==
    /\ NaturalKeysUnique(store.et) /\ NaturalKeysUnique(store.tn)
    /\ NaturalKeysUnique(store.src) /\ NaturalKeysUnique(store.snk)

\* An update_structure of an object that lists one natural key twice under
\* two ids failed on a store that holds rows, and a second document that
\* overlaps the first was synchronized onto its rows.
C14_Witness ==
    /\ UpdateFailed /\ last.outcome = "DBIntegrityError"
    /\ \E i, j \in DOMAIN doc.tns : i # j /\ doc.tns[i].key = doc.tns[j].key
                                        /\ doc.tns[i].id # doc.tns[j].id
    /\ store.tn # {} /\ store.et # {} /\ store.src # {}

\* ----------------------------------------------------------------- C15

\* C15: referential integrity. In every committed store state every thing
\* node row references a stored element type, every non-null parent_node_id
\* references a stored thing node, and every association row references a
\* stored thing node and a stored source (or sink).
C15_ReferentialIntegrity == ForeignKeysOk(store)

\* C15 where the database enforces its foreign keys.
C15_ReferentialIntegrityEnforced == fkOn => ForeignKeysOk(store)

\* A successful update_structure of a valid document keeps the foreign keys
\* of a store that had them intact, enforced or not.
C15_ValidDocumentKeepsIntegrity ==
    (UpdateSucceeded /\ docErr = Accepted /\ ForeignKeysOk(pre)) => ForeignKeysOk(store)

\* Foreign keys are not enforced and a successful update_structure stored a
\* thing node whose parent_node_id is the id of no stored thing node: the
\* parent was skipped for its missing element type.
C15_DanglingParent ==
    /\ UpdateSucceeded /\ ~ fkOn /\ ForeignKeysOk(pre)
    /\ \E r \in store.tn :
          /\ r.parent_node_id # None /\ r.parent_node_id \notin Ids(store.tn)
          /\ \E i \in DOMAIN doc.tns :
                /\ doc.tns[i].id = r.parent_node_id
                /\ ElementTypeOf(store, doc.tns[i]) = <<>>

\* ----------------------------------------------------------------- C16

\* The ids met by following parent_node_id from the row with this id, at
\* most fuel steps.
RECURSIVE StoredAncestorIds(_, _, _)
StoredAncestorIds(table, id, fuel) ==
    IF fuel = 0 THEN {}
    ELSE LET ps == {q.parent_node_id : q \in {q \in table : q.id = id /\ q.parent_node_id # None}}
         IN ps \cup UNION {StoredAncestorIds(table, p, fuel - 1) : p \in ps}

\* Following parent_node_id from r ends at a stored row without parent.
ReachesRoot(table, r) ==
    LET up == StoredAncestorIds(table, r.id, Cardinality(table))
    IN /\ r.id \notin up
       /\ up \subseteq Ids(table)
       /\ \A q \in table : q.id \in up => q.id \notin StoredAncestorIds(table, q.id, Cardinality(table))

Forest(table) == \A r \in table : ReachesRoot(table, r)

\* C16: forest invariant. A successful update_structure of a valid document,
\* which may cover part of the stored hierarchy and re-parent stored nodes,
\* leaves a forest if the store was one: from every stored thing node the
\* parent_node_id chain reaches a node without parent.
C16_ForestKept ==
    (UpdateSucceeded /\ docErr = Accepted /\ Forest(pre.tn)) => Forest(store.tn)

\* No parent_node_id chain of the store returns to its start, whatever
\* objects were synchronized.
C16_NoStoredCycle ==
    \A r \in store.tn : r.id \notin StoredAncestorIds(store.tn, r.id, Cardinality(store.tn))

\* A valid document re-parented a stored node that had a parent, while a
\* stored node outside the document kept its parent.
C16_Witness ==
    /\ UpdateSucceeded /\ docErr = Accepted /\ Forest(pre.tn)
    /\ \E q \in pre.tn, r \in store.tn :
          /\ q.key = r.key /\ q.parent_node_id # None
          /\ r.parent_node_id # q.parent_node_id
    /\ \E r \in store.tn : r.key \notin KeysOf(doc.tns) /\ r.parent_node_id # None

\* ----------------------------------------------------------------- C17

IsResolve(l) == l.op \in {"fetch_thing_nodes", "fetch_element_types"}

\* C17: resolver exactness. For every key set and every batch_size the
\* resolver returns a map whose keys are exactly the requested keys that
\* have a stored record, each mapped to that record, whatever the
\* batch_size; for the empty key set it returns the empty map and issues no
\* query.
C17_ResolverExact ==
    IsResolve(last) =>
        /\ DOMAIN last.existing = last.keys \cap Keys(last.table)
        /\ \A k \in DOMAIN last.existing :
              last.existing[k] \in last.table /\ last.existing[k].key = k
        /\ last.keys = {} => last.queries = <<>>

\* More keys than one batch were requested, some stored and some not, and
\* all of the stored ones were returned.
C17_Witness ==
    /\ IsResolve(last) /\ Len(last.queries) > 1
    /\ DOMAIN last.existing # {} /\ DOMAIN last.existing # last.keys
    /\ \E i \in DOMAIN last.queries :
          i > 1 /\ Range(last.queries[i]) \cap DOMAIN last.existing # {}

\* ----------------------------------------------------------------- C18

\* The places <<query, position>> at which the queries carry key k.
Carriers(queries, k) ==
    UNION {{<<i, j>> : j \in {j \in DOMAIN queries[i] : queries[i][j] = k}} :
              i \in DOMAIN queries}

\* C18: batch bound. For every non-empty key set and every batch_size the
\* resolver issues one query per batch, no query carries more than batch_size
\* keys, and every key is carried by exactly one query.
C18_BatchBound ==
    (IsResolve(last) /\ last.keys # {}) =>
        /\ \A i \in DOMAIN last.queries : Len(last.queries[i]) <= last.batch_size
        /\ \A k \in last.keys : Cardinality(Carriers(last.queries, k)) = 1

\* What holds of the batches: every key is carried by exactly one query,
\* there are at most batch_size queries, and each carries at most
\* ceil(n / batch_size) keys.
C18_AtMostBatchSizeQueries ==
    (IsResolve(last) /\ last.keys # {}) =>
        /\ Len(last.queries) <= last.batch_size
        /\ \A i \in DOMAIN last.queries :
              Len(last.queries[i]) <= Ceil(Cardinality(last.keys), last.batch_size)
        /\ \A k \in last.keys : Cardinality(Carriers(last.queries, k)) = 1

\* A query that carries more keys than batch_size.
C18_OversizedBatch ==
    /\ IsResolve(last) /\ last.keys # {}
    /\ \E i \in DOMAIN last.queries : Len(last.queries[i]) > last.batch_size

\* ----------------------------------------------------------------- C19

IsMultiFetch(l) == l.op \in {"fetch_collection_of_sources", "fetch_collection_of_sinks"}

\* The ids of an id list that have a stored record.
ExistingIds(l) == Range(l.ids) \cap {r.id : r \in l.table}

\* C19: multi-fetch by ids. The multi-fetch of sources and of sinks signals
\* not-found exactly if the id list is non-empty and none of its ids has a
\* record; otherwise it returns the map id -> record of all requested ids
\* that exist: the empty map for the empty list, the found records for a
\* list of which only some ids exist.
C19_MultiFetch ==
    IsMultiFetch(last) =>
        /\ last.outcome \in {"ok", "DBNotFoundError"}
        /\ last.outcome = "DBNotFoundError" <=> (last.ids # <<>> /\ ExistingIds(last) = {})
        /\ last.outcome = "ok" =>
              /\ DOMAIN last.found = ExistingIds(last)
              /\ \A i \in DOMAIN last.found :
                    last.found[i] \in last.table /\ last.found[i].id = i

\* A list of which only some ids exist gave the found records.
C19_Witness ==
    /\ IsMultiFetch(last) /\ last.outcome = "ok"
    /\ DOMAIN last.found # {} /\ ~ (Range(last.ids) \subseteq DOMAIN last.found)

\* A non-empty list of unknown ids gave not-found.
C19_NoneFound ==
    /\ IsMultiFetch(last) /\ last.outcome = "DBNotFoundError"
    /\ last.ids # <<>> /\ last.table # {}

\* The empty list gave the empty map.
C19_EmptyList ==
    /\ IsMultiFetch(last) /\ last.outcome = "ok" /\ last.ids = <<>> /\ last.found = <<>>

\* ----------------------------------------------------------------- C20

IsSingleGet(l) ==
    l.op \in {"get_single_thingnode_endpoint", "get_single_source_endpoint",
              "get_single_sink_endpoint"}

\* C20: not-found propagation. A request for a single ThingNode, Source or
\* Sink by an id that has no stored record ends in a not-found (404)
\* response, never in a success or server-error response.
C20_NotFoundPropagation ==
    (IsSingleGet(last) /\ ~ \E r \in last.table : r.id = last.arg) =>
        last.status = 404

\* What holds of the single-record endpoints: a stored id is answered with
\* 200 and its record, and no request is answered with 404.
C20_NeverNotFound ==
    IsSingleGet(last) =>
        /\ last.status # 404
        /\ (\E r \in last.table : r.id = last.arg) =>
              (last.status = 200 /\ last.body \in last.table /\ last.body.id = last.arg)

\* A request by an id without a record, in a store that has records of the
\* kind, was answered with a status other than 404 and no record.
C20_MissingNot404 ==
    /\ IsSingleGet(last) /\ last.table # {}
    /\ ~ \E r \in last.table : r.id = last.arg
    /\ last.status \in {200, 500} /\ last.body = None

\* ----------------------------------------------------------------- C21

\* An update_structure call that entered its transaction block.
RanBlock(l) == IsUpdate(l) /\ l.began

\* C21: phase ordering. Within one update_structure call the upsert calls
\* run in the order element types, thing nodes, sources, sinks inside one
\* transaction: a thing node is written only after the element types were
\* written, a source or an association only after the thing nodes were, a
\* sink only after the sources were, and a call that raises commits none of
\* it.
C21_PhaseOrder ==
    RanBlock(last) =>
        /\ \E n \in 0..4 :
              last.phases = SubSeq(<<"element_types", "thing_nodes", "sources", "sinks">>, 1, n)
        /\ last.work.tn # pre.tn => Len(last.phases) >= 1
        /\ (last.work.src # pre.src \/ last.work.src_assoc # pre.src_assoc)
              => Len(last.phases) >= 2
        /\ (last.work.snk # pre.snk \/ last.work.snk_assoc # pre.snk_assoc)
              => Len(last.phases) >= 3
        /\ last.outcome = "ok" => (Len(last.phases) = 4 /\ store = last.work)
        /\ last.outcome # "ok" => store = pre

\* A call that raised in upsert_sources after element types and thing nodes
\* had been written in the session and before any source was.
C21_Witness ==
    /\ RanBlock(last) /\ last.outcome = "DBUpdateError"
    /\ last.phases = <<"element_types", "thing_nodes">>
    /\ last.work.et # pre.et /\ last.work.tn # pre.tn
    /\ last.work.src = pre.src /\ doc.srcs # <<>>

\* ----------------------------------------------------------------- C22

\* C22: validation precedes the store. When the file given to
\* update_structure_from_file fails parsing or a validator check, the error
\* is raised before update_structure is called: no transaction is begun and
\* the store is unchanged.
C22_ValidationBeforeStore ==
    (last.op = "update_from_file" /\ docErr # Accepted) =>
        /\ last.outcome = "DBParsingError"
        /\ ~ last.began
        /\ store = pre

\* A file that fails a validator check was given on a store that holds rows,
\* and an accepted file begins a transaction.
C22_Witness ==
    /\ last.op = "update_from_file" /\ last.outcome = "DBParsingError"
    /\ docErr.kind \notin {"", "json_decode_error"}
    /\ doc.tns # <<>> /\ ~ doc.built
    /\ store = pre /\ store.tn # {}

\* A file that is not JSON was given on a store that holds rows.
C22_NotJson ==
    /\ last.op = "update_from_file" /\ last.outcome = "DBParsingError"
    /\ docErr.kind = "json_decode_error" /\ ~ last.began
    /\ store = pre /\ store.tn # {}

\* ----------------------------------------------------------------- C23

\* The nodes whose parent reference is set and is the external id of no node
\* of the document.
Unresolved(tns) ==
    {i \in DOMAIN tns : /\ tns[i].parent_ext # NoParent
                        /\ \A j \in DOMAIN tns : tns[j].key[2] # tns[i].parent_ext}

\* The verdicts of the checks that run before the parent references are
\* looked at.
BeforeParentCheck == {"json_decode_error", "no_element_types", "duplicate_key",
                      "unknown_element_type"}

\* C23: invalid parent reference. A document with a thing node whose
\* non-null parent_external_node_id matches no thing node of the document is
\* rejected, with the invalid parent reference error naming such a node
\* unless an earlier check fails first; the loader raises it as a parsing
\* error; an accepted document has none, so that only a null reference makes
\* a root.
C23_InvalidParentRejected ==
    /\ Unresolved(doc.tns) # {} =>
          /\ docErr # Accepted
          /\ docErr.kind \notin BeforeParentCheck =>
                /\ docErr.kind = "invalid_parent_reference"
                /\ \E i \in Unresolved(doc.tns) : doc.tns[i].key = docErr.node
          /\ last.op = "update_from_file" =>
                (last.outcome = "DBParsingError" /\ store = pre)
    /\ docErr.kind = "invalid_parent_reference" =>
          \E i \in Unresolved(doc.tns) : doc.tns[i].key = docErr.node

\* The file with a root and a node whose parent is not in the document was
\* rejected for the node, on a store that holds rows.
C23_Witness ==
    /\ last.op = "update_from_file" /\ last.outcome = "DBParsingError"
    /\ docErr.kind = "invalid_parent_reference"
    /\ \E i, j \in DOMAIN doc.tns :
          /\ doc.tns[i].parent_ext = NoParent
          /\ j \in Unresolved(doc.tns) /\ doc.tns[j].key = docErr.node
    /\ store.tn # {}

\* ----------------------------------------------------------------- C24

\* The nodes that the parent reference of node i can name: the nodes of its
\* stakeholder with this external id, or, if there is none, the nodes of
\* other stakeholders with it.
ParentsOf(tns, i) ==
    LET named == {j \in DOMAIN tns : tns[j].key[2] = tns[i].parent_ext}
        own == {j \in named : tns[j].key[1] = tns[i].key[1]}
    IN IF tns[i].parent_ext = NoParent THEN {}
       ELSE IF own # {} THEN own ELSE named

\* The nodes on the parent chain above node i, in at most n steps.
RECURSIVE ChainAbove(_, _, _)
ChainAbove(tns, i, n) ==
    IF n = 0 THEN {}
    ELSE ParentsOf(tns, i) \cup UNION {ChainAbove(tns, j, n - 1) : j \in ParentsOf(tns, i)}

\* The nodes whose parent chain holds a node of another stakeholder.
MixedChains(tns) ==
    {i \in DOMAIN tns : \E j \in ChainAbove(tns, i, Len(tns)) : tns[j].key[1] # tns[i].key[1]}

\* The verdicts of the checks that run before the stakeholder keys are
\* looked at.
BeforeStakeholderCheck ==
    BeforeParentCheck \cup {"invalid_parent_reference", "circular_reference"}

\* C24: owner-key consistency. A document in which the stakeholder_key
\* changes somewhere on the parent chain of a thing node is rejected, with
\* the inconsistent stakeholder_key error naming such a node unless an
\* earlier check fails first; a document is rejected for its stakeholder
\* keys only if a chain changes key, so that trees of different stakeholders
\* in one document are accepted.
C24_OwnerKeyConsistency ==
    /\ MixedChains(doc.tns) # {} =>
          /\ docErr # Accepted
          /\ docErr.kind \notin BeforeStakeholderCheck =>
                /\ docErr.kind = "inconsistent_stakeholder_key"
                /\ \E i \in MixedChains(doc.tns) : doc.tns[i].key = docErr.node
          /\ last.op = "update_from_file" =>
                (last.outcome = "DBParsingError" /\ store = pre)
    /\ docErr.kind = "inconsistent_stakeholder_key" => MixedChains(doc.tns) # {}

\* A chain a - b of one stakeholder with a leaf of another was rejected for
\* the leaf, after a document with one tree for each of two stakeholders
\* was accepted and stored.
C24_Witness ==
    /\ last.op = "update_from_file" /\ last.outcome = "DBParsingError"
    /\ docErr = Rejected("inconsistent_stakeholder_key", C2)
    /\ Len(doc.tns) = 3 /\ MixedChains(doc.tns) # {}
    /\ {A, A2, B2} \subseteq Keys(store.tn)
    /\ \E r \in store.tn : r.key = B2 /\ r.parent_node_id \in {q.id : q \in {q \in store.tn : q.key = A2}}

\* A document with one tree for each of two stakeholders was accepted and
\* synchronized.
C24_TwoTreesAccepted ==
    /\ last.op = "update_from_file" /\ last.outcome = "ok" /\ docErr = Accepted
    /\ {A, B, A2, B2} = KeysOf(doc.tns) /\ {A, B, A2, B2} \subseteq Keys(store.tn)

\* ----------------------------------------------------------------- C25

\* The nodes handed to upsert_thing_nodes whose element type is not in the
\* session when they are written.
SkippedNodes(l) ==
    {i \in DOMAIN l.sorted :
        <<l.sorted[i].key[1], l.sorted[i].et_ext>> \notin Keys(l.work.et)}

\* An update_structure call that reached upsert_thing_nodes with a node to
\* skip and ended without a store failure from outside.
SkippedSome(l) ==
    /\ RanBlock(l) /\ Len(l.phases) >= 1 /\ SkippedNodes(l) # {}
    /\ l.outcome \in {"ok", "DBIntegrityError"}

\* The node written for the i-th sorted node is in table.
NodeStored(table, n) == \E r \in table : r.key = n.key /\ r.descr = n.descr

\* C25: lenient element-type skip. If at write time the element type of a
\* thing node cannot be resolved, that node is left absent from the store
\* and the synchronization still completes: it commits the other thing
\* nodes, the element types, the sources and the sinks of the document.
C25_LenientSkip ==
    SkippedSome(last) =>
        /\ last.outcome = "ok"
        /\ \A i \in DOMAIN last.sorted :
              IF i \in SkippedNodes(last)
              THEN last.sorted[i].key \in Keys(store.tn) => last.sorted[i].key \in Keys(pre.tn)
              ELSE NodeStored(store.tn, last.sorted[i])
        /\ KeysOf(doc.ets) \subseteq Keys(store.et)
        /\ KeysOf(doc.srcs) \subseteq Keys(store.src)
        /\ KeysOf(doc.snks) \subseteq Keys(store.snk)

\* What holds of the skip: where no written node is a child of a skipped
\* one, the call completes as stated.
C25_SkipOfChildlessNode ==
    (/\ SkippedSome(last)
     /\ \A i \in SkippedNodes(last), j \in DOMAIN last.sorted :
           j \notin SkippedNodes(last) => last.sorted[j].parent_node_id # last.sorted[i].id) =>
        /\ last.outcome = "ok"
        /\ \A i \in DOMAIN last.sorted :
              i \notin SkippedNodes(last) => NodeStored(store.tn, last.sorted[i])
        /\ KeysOf(doc.ets) \subseteq Keys(store.et)
        /\ KeysOf(doc.srcs) \subseteq Keys(store.src)
        /\ KeysOf(doc.snks) \subseteq Keys(store.snk)

\* The root was skipped for its element type and the insert of its child
\* failed the whole transaction: nothing of the document was committed.
C25_SkipFailsTransaction ==
    /\ SkippedSome(last) /\ fkOn /\ last.outcome = "DBIntegrityError"
    /\ \E i \in SkippedNodes(last), j \in DOMAIN last.sorted :
          /\ j \notin SkippedNodes(last)
          /\ last.sorted[j].parent_node_id = last.sorted[i].id
    /\ store = pre
    /\ \E i \in DOMAIN doc.ets : doc.ets[i].key \notin Keys(store.et)

\* The call completed with a stored child whose parent row does not exist.
C25_SkipLeavesDanglingChild ==
    /\ SkippedSome(last) /\ ~ fkOn /\ last.outcome = "ok"
    /\ \E r \in store.tn : r.parent_node_id # None
                            /\ ~ \E q \in store.tn : q.id = r.parent_node_id

\* ----------------------------------------------------------------- C26

\* The declared thing node external ids of entity e that name no thing node
\* of its stakeholder in tnTable.
UnresolvedRefs(tnTable, e) ==
    {x \in e.tn_ext_ids : ~ \E t \in tnTable : t.key = <<e.key[1], x>>}

\* The rows and links of the entities es are written in st: every row with
\* the document's field values, and for every entity that declares thing
\* nodes exactly the links that resolve.
EntitiesWritten(st, table, assoc, es) ==
    \A i \in DOMAIN es :
        /\ \E r \in table : r.key = es[i].key /\ r.descr = es[i].descr
        /\ es[i].tn_ext_ids # {} =>
              StoredLinks(assoc, table, es[i]) = DeclaredLinks(st, table, es[i])

\* An update_structure call that reached upsert_sources with a declared
\* thing node of a source that does not resolve, or upsert_sinks with one of
\* a sink, and met no store failure from outside.
UnresolvedLink(l) ==
    /\ RanBlock(l)
    /\ l.outcome \in {"ok", "DBIntegrityError"}
    /\ \/ /\ Len(l.phases) >= 2
          /\ \E i \in DOMAIN doc.srcs : UnresolvedRefs(l.work.tn, doc.srcs[i]) # {}
       \/ /\ Len(l.phases) >= 3
          /\ \E i \in DOMAIN doc.snks : UnresolvedRefs(l.work.tn, doc.snks[i]) # {}

\* C26: lenient association skip. If a thing_node_external_id declared by a
\* source or sink does not resolve to a stored thing node at write time,
\* only that link is skipped: the rows of all sources and sinks and all of
\* their links that resolve are written, and the synchronization does not
\* fail.
C26_LenientLinkSkip ==
    UnresolvedLink(last) =>
        /\ last.outcome = "ok"
        /\ EntitiesWritten(store, store.src, store.src_assoc, doc.srcs)
        /\ EntitiesWritten(store, store.snk, store.snk_assoc, doc.snks)

\* A source declaring a and b was synchronized where only a is stored: its
\* row and its link to a are stored, there is no link for b.
C26_Witness ==
    /\ UnresolvedLink(last) /\ last.outcome = "ok"
    /\ \E i \in DOMAIN doc.srcs :
          /\ UnresolvedRefs(store.tn, doc.srcs[i]) # {}
          /\ UnresolvedRefs(store.tn, doc.srcs[i]) # doc.srcs[i].tn_ext_ids
          /\ Cardinality(StoredLinks(store.src_assoc, store.src, doc.srcs[i])) = 1

\* ----------------------------------------------------------------- C27

\* The call ended inside one of the four upsert calls.
FailedInUpsert(l) == RanBlock(l) /\ l.cause # "" /\ l.at \in 1..4

\* C27: write-failure kinds. An integrity violation in any upsert phase
\* reaches the caller of update_structure as DBIntegrityError, any other
\* failure of the store in an upsert phase as DBUpdateError; in both cases
\* the transaction is aborted, and no failure lets update_structure return
\* normally.
C27_WriteFailureKinds ==
    /\ FailedInUpsert(last) =>
          /\ last.cause = "IntegrityError" => last.outcome = "DBIntegrityError"
          /\ last.cause # "IntegrityError" => last.outcome = "DBUpdateError"
          /\ store = pre
    /\ (RanBlock(last) /\ last.cause # "") => last.outcome # "ok"

\* A unique constraint was violated in upsert_thing_nodes after the element
\* types had been written in the session: DBIntegrityError, nothing committed.
C27_Witness ==
    /\ FailedInUpsert(last) /\ last.cause = "IntegrityError" /\ last.at = 2
    /\ last.outcome = "DBIntegrityError"
    /\ last.work.et # pre.et /\ store = pre

\* The store failed in upsert_sinks after rows of the three other kinds had
\* been written in the session: DBUpdateError, nothing committed.
C27_OtherFailure ==
    /\ FailedInUpsert(last) /\ last.cause = "OperationalError" /\ last.at = 4
    /\ last.outcome = "DBUpdateError"
    /\ last.work.tn # pre.tn /\ last.work.src # pre.src /\ store = pre

\* ----------------------------------------------------------------- C28

\* The call met an operational failure of the store.
OperationalFailure(l) == RanBlock(l) /\ l.cause = "OperationalError"

\* C28: connection-error kind. An operational failure of the store (store
\* unreachable, operation timed out) at any point of update_structure, while
\* resolving keys, inside an upsert phase or at commit, reaches the caller
\* as DBConnectionError.
C28_ConnectionErrorKind ==
    OperationalFailure(last) => last.outcome = "DBConnectionError"

\* What holds of an operational failure: it reaches the caller as DBError
\* while resolving keys, as DBUpdateError inside an upsert phase and as
\* DBConnectionError at commit, and nothing is committed.
C28_KindByPlace ==
    OperationalFailure(last) =>
        /\ last.at = 0 => last.outcome = "DBError"
        /\ last.at \in 1..4 => last.outcome = "DBUpdateError"
        /\ last.at = 5 => last.outcome = "DBConnectionError"
        /\ store = pre

\* An operational failure inside upsert_thing_nodes reached the caller as
\* DBUpdateError.
C28_UpdateErrorInPhase ==
    /\ OperationalFailure(last) /\ last.at = 2 /\ last.outcome = "DBUpdateError"
    /\ last.work.et # pre.et

\* An operational failure while resolving keys reached the caller as DBError.
C28_ErrorInFetch ==
    /\ OperationalFailure(last) /\ last.at = 0 /\ last.outcome = "DBError"
    /\ doc.tns # <<>> /\ store.tn # {}

\* ----------------------------------------------------------------- C29

\* is_database_empty was called after the call that last describes.
Asked(l) == "is_empty" \in DOMAIN l

\* C29: is_database_empty returns true if and only if the element type,
\* thing node, source and sink tables all have no row, in every reachable
\* store state: true directly after delete_structure, false after a
\* successful update_structure of a valid document.
C29_IsDatabaseEmpty ==
    Asked(last) =>
        /\ last.is_empty <=>
              (store.et = {} /\ store.tn = {} /\ store.src = {} /\ store.snk = {})
        /\ IsWipe(last) => last.is_empty
        /\ (UpdateSucceeded /\ docErr = Accepted) => ~ last.is_empty

\* Asked directly after a delete_structure that emptied a store with rows.
C29_Witness ==
    /\ Asked(last) /\ IsWipe(last) /\ pre.tn # {} /\ pre.src # {}
    /\ last.is_empty

\* Asked after a successful update_structure of a valid document.
C29_NotEmptyAfterUpdate ==
    /\ Asked(last) /\ UpdateSucceeded /\ docErr = Accepted /\ ~ last.is_empty

\* Asked where there is no element type but a source.
C29_OnlySomeTablesEmpty ==
    /\ Asked(last) /\ store.et = {} /\ store.src # {} /\ ~ last.is_empty

\* ----------------------------------------------------------------- C30

\* The call before was prepopulate_structure.
IsStartup(l) == l.op = "prepopulate"

\* The four entity tables of st hold a row.
HoldsRows(st) == st.et # {} \/ st.tn # {} \/ st.src # {} \/ st.snk # {}

\* Every row of before is a row of after under its key, and every link a
\* link of after.
NothingDeleted(before, after) ==
    /\ Keys(before.et) \subseteq Keys(after.et)
    /\ Keys(before.tn) \subseteq Keys(after.tn)
    /\ Keys(before.src) \subseteq Keys(after.src)
    /\ Keys(before.snk) \subseteq Keys(after.snk)

\* st holds rows of the document d only.
HoldsDocumentOnly(st, d) ==
    /\ Keys(st.et) \subseteq KeysOf(d.ets)
    /\ Keys(st.tn) \subseteq KeysOf(d.tns)
    /\ Keys(st.src) \subseteq KeysOf(d.srcs)
    /\ Keys(st.snk) \subseteq KeysOf(d.snks)

\* C30: prepopulate_structure touches the store only if prepopulation is
\* enabled; given a structure, it calls delete_structure exactly when the
\* overwrite flag is set and the store is not empty, and then, delete_structure
\* having returned, calls update_structure with the provided document: with
\* the flag unset an existing structure is updated and nothing is deleted,
\* with the flag set the store holds the document only.
C30_OverwriteOrUpdate ==
    IsStartup(last) =>
        /\ ~ last.enabled =>
              store = pre /\ ~ last.retrieved /\ ~ last.delete_called /\ ~ last.update_called
        /\ ~ last.retrieved => store = pre /\ ~ last.delete_called /\ ~ last.update_called
        /\ last.retrieved =>
              /\ last.delete_called <=> (last.overwrite /\ HoldsRows(pre))
              /\ ~ last.delete_called => last.update_called
              /\ ~ last.update_called =>
                    last.outcome \in {"DBError", "DBIntegrityError"} /\ store = pre
              /\ (last.update_called /\ last.outcome = "ok") =>
                    /\ doc.built
                    /\ KeysOf(doc.ets) \subseteq Keys(store.et)
                    /\ \A i \in DOMAIN doc.ets :
                          \E e \in store.et : e.key = doc.ets[i].key /\ e.descr = doc.ets[i].descr
              /\ ~ last.overwrite => NothingDeleted(pre, store)
              /\ (last.delete_called /\ last.update_called) => HoldsDocumentOnly(store, doc)

\* A startup with the overwrite flag unset over a store with thing nodes the
\* document does not name: they are kept next to the document's.
C30_Witness ==
    /\ IsStartup(last) /\ last.enabled /\ ~ last.overwrite /\ last.outcome = "ok"
    /\ last.update_called /\ ~ last.delete_called
    /\ Keys(pre.tn) \ KeysOf(doc.tns) # {}
    /\ KeysOf(doc.tns) \ Keys(pre.tn) # {}
    /\ Keys(pre.tn) \subseteq Keys(store.tn)

\* A startup with the overwrite flag set replaced the rows of a store by the
\* document's.
C30_Overwritten ==
    /\ IsStartup(last) /\ last.overwrite /\ last.outcome = "ok"
    /\ last.delete_called /\ last.update_called
    /\ Keys(pre.tn) \ Keys(store.tn) # {}
    /\ store.tn # {}

\* A startup that is not enabled over a store with rows.
C30_NotEnabled ==
    /\ IsStartup(last) /\ ~ last.enabled /\ store.tn # {} /\ store = pre

\* delete_structure raised: update_structure was not called and the rows are
\* kept.
C30_DeleteRaised ==
    /\ IsStartup(last) /\ last.delete_called /\ ~ last.update_called
    /\ store = pre /\ store.tn # {}

\* update_structure raised after delete_structure had returned: the store is
\* empty.
C30_EmptyAfterFailedUpdate ==
    /\ IsStartup(last) /\ last.delete_called /\ last.update_called
    /\ last.outcome # "ok" /\ pre.tn # {} /\ store = EmptyStore

\* ----------------------------------------------------------------- C31

\* Both concurrent calls have returned.
BothReturned ==
    sessions # NoSessions /\ \A i \in 1..2 : ~ InFlight(sessions.tx[i])

\* The thing node keys both calls read as absent and issued an INSERT for.
ContendedKeys ==
    {k \in sessions.tx[1].absent \cap sessions.tx[2].absent :
        k \in sessions.tx[1].attempted \cap sessions.tx[2].attempted}

Committed(i) == sessions.tx[i].outcome = "ok"

\* No row of the store was written by the call of session i.
NothingWrittenBy(i) ==
    \A t \in {"et", "tn", "src", "snk"} :
        \A r \in store[t] : r.descr # sessions.tx[i].object /\ r.id[1] # sessions.tx[i].object

\* Every entity of the document of session i is stored as the document has it.
AllWrittenBy(i) ==
    LET d == sessions.tx[i].doc
        stored(t, seq) == \A j \in DOMAIN seq :
                             \E r \in store[t] : r.key = seq[j].key /\ r.descr = seq[j].descr
    IN stored("et", d.ets) /\ stored("tn", d.tns) /\ stored("src", d.srcs)
       /\ stored("snk", d.snks)

\* What holds of two returned calls that contended for a key, the failed one
\* having raised one of the errors in kinds.
ContentionSettled(kinds) ==
    (BothReturned /\ ContendedKeys # {}) =>
        /\ ~ (Committed(1) /\ Committed(2))
        /\ \E i \in 1..2 : Committed(i)
        /\ \A i \in 1..2 :
              Committed(i) =>
                 /\ sessions.tx[Other(i)].outcome \in kinds
                 /\ NothingWrittenBy(Other(i))
                 /\ AllWrittenBy(i)
        /\ \A k \in ContendedKeys : Cardinality({r \in store.tn : r.key = k}) = 1

\* C31 as stated: of two concurrent update_structure calls that both read a
\* thing node key as absent and attempt to insert it, in every interleaving at
\* most one commits a row for the key, the other fails with DBIntegrityError
\* and is rolled back completely, and the store ends with exactly one row for
\* the key and the complete writes of the call that committed.
C31_LoserGetsIntegrityError == ContentionSettled({"DBIntegrityError"})

\* C31 amended: the other call fails with DBIntegrityError, or with
\* DBUpdateError where the store ends its wait for the first one's rows
\* (deadlock, lock timeout); the rest as stated.
C31_LoserRolledBack == ContentionSettled({"DBIntegrityError", "DBUpdateError"})

\* Both calls read a as absent and issued its INSERT; the first committed, the
\* second ran into the unique constraint.
C31_Witness ==
    /\ BothReturned /\ A \in ContendedKeys
    /\ Committed(1) /\ sessions.tx[2].outcome = "DBIntegrityError"
    /\ Cardinality({r \in store.tn : r.key = A}) = 1

\* PostgreSQL: the calls inserted a and b in opposite orders and waited for
\* each other; the one the store aborted raised DBUpdateError.
C31_DeadlockVictim ==
    /\ BothReturned /\ sessions.engine = "postgresql" /\ ContendedKeys # {}
    /\ Committed(1) /\ sessions.tx[2].outcome = "DBUpdateError"

\* SQLite: the second call's write waited for the database lock until the
\* busy timeout.
C31_LockTimeout ==
    /\ BothReturned /\ sessions.engine = "sqlite" /\ ContendedKeys # {}
    /\ Committed(1) /\ sessions.tx[2].outcome = "DBUpdateError"

\* ----------------------------------------------------------------- C32

\* The entity lists of a document with the tables they are written to.
Kinds(d) == <<<<"et", d.ets>>, <<"tn", d.tns>>, <<"src", d.srcs>>, <<"snk", d.snks>>>>

\* Two entities of one kind of d have distinct keys and the same name.
SharesNameInDocument(d) ==
    \E k \in 1..4 : \E i, j \in DOMAIN Kinds(d)[k][2] :
        /\ Kinds(d)[k][2][i].key # Kinds(d)[k][2][j].key
        /\ Kinds(d)[k][2][i].name = Kinds(d)[k][2][j].name

\* An entity of d has the name of a row of st stored under another key.
TakesStoredName(d, st) ==
    \E k \in 1..4 : \E i \in DOMAIN Kinds(d)[k][2] : \E r \in st[Kinds(d)[k][1]] :
        r.key # Kinds(d)[k][2][i].key /\ r.name = Kinds(d)[k][2][i].name

\* As before, of a row that d does not list under another name.
TakesKeptName(d, st) ==
    \E k \in 1..4 : \E i \in DOMAIN Kinds(d)[k][2] : \E r \in st[Kinds(d)[k][1]] :
        /\ r.key # Kinds(d)[k][2][i].key /\ r.name = Kinds(d)[k][2][i].name
        /\ \A j \in DOMAIN Kinds(d)[k][2] :
              Kinds(d)[k][2][j].key = r.key => Kinds(d)[k][2][j].name = r.name

\* update_structure ran on an accepted document and no store failure struck.
RanUndisturbed == RanBlock(last) /\ docErr = Accepted /\ last.cause # StoreFailure

\* C32 as stated: update_structure of a validator-accepted document in which
\* two entities of one kind have distinct natural keys and the same name, or
\* in which an entity has the name of a differently keyed stored entity, fails
\* with an integrity error and writes nothing.
C32_NameClashFails ==
    (RanUndisturbed /\ (SharesNameInDocument(doc) \/ TakesStoredName(doc, pre))) =>
        last.outcome = "DBIntegrityError" /\ store = pre

\* C32 amended: the same, where the stored entity whose name is taken is not
\* given another name by the document itself.
C32_KeptNameClashFails ==
    (RanUndisturbed /\ (SharesNameInDocument(doc) \/ TakesKeptName(doc, pre))) =>
        last.outcome = "DBIntegrityError" /\ store = pre

\* A thing node b under the name of the stored thing node a, which the
\* document does not list: integrity error, nothing written.
C32_Witness ==
    /\ RanUndisturbed /\ ~ SharesNameInDocument(doc) /\ TakesKeptName(doc, pre)
    /\ KeysOf(doc.tns) = {B} /\ pre.tn # {}
    /\ last.outcome = "DBIntegrityError" /\ store = pre

\* Two sources of one document under one name.
C32_SharedNameInDocument ==
    /\ RanUndisturbed /\ Len(doc.srcs) = 2 /\ SharesNameInDocument(doc)
    /\ last.outcome = "DBIntegrityError" /\ store = pre /\ last.at = 3

\* The document renames the stored thing node a and gives its old name to the
\* new thing node b: the update is flushed before the insert and both are
\* written.
C32_NameHandedOver ==
    /\ RanUndisturbed /\ TakesStoredName(doc, pre) /\ last.outcome = "ok"
    /\ \E r \in store.tn : r.key = B /\ r.name = A
    /\ \E r \in store.tn : r.key = A /\ r.name = M

\* ----------------------------------------------------------------- C33

\* A startup that called delete_structure, which returned, and then
\* update_structure, which raised.
OverwriteFailed ==
    /\ IsStartup(last) /\ last.enabled /\ last.overwrite
    /\ last.delete_called /\ last.update_called /\ last.outcome # "ok"

\* C33: the startup overwrite is not atomic.  With the overwrite flag set
\* and a store that is not empty, delete_structure commits before
\* update_structure begins; if update_structure then fails, all six tables
\* are left without rows and the structure stored before is not restored.
C33_OverwriteNotAtomic ==
    OverwriteFailed =>
        /\ HoldsRows(pre)
        /\ \A t \in Tables : store[t] = {}
        /\ store # pre

\* update_structure raised DBIntegrityError on the document itself, after a
\* store with thing nodes and association rows had been wiped.
C33_Witness ==
    /\ OverwriteFailed /\ last.outcome = "DBIntegrityError"
    /\ pre.tn # {} /\ pre.src_assoc # {}
    /\ store = EmptyStore

\* ----------------------------------------------------------------- C34

\* The thing nodes of d whose parent reference names no node of d but a row
\* of st, as indices.
UnderStoredParent(d, st) ==
    {i \in DOMAIN d.tns :
        /\ d.tns[i].parent_ext # NoParent
        /\ ParentKey(d.tns[i]) \notin KeysOf(d.tns)
        /\ ParentKey(d.tns[i]) \in Keys(st.tn)}

\* The thing node tn is stored as a child of the row stored under its
\* parent's key.
LinkedToStoredParent(st, tn) ==
    \E r \in st.tn : \E q \in st.tn :
        r.key = tn.key /\ q.key = ParentKey(tn) /\ r.parent_node_id = q.id

\* C34: a document thing node whose parent reference resolves to a thing
\* node that is already in the store but not in the document is synchronized
\* and linked to the stored parent (parent_node_id is the stored parent's
\* id); it is neither rejected nor excluded as an orphan.
C34_StoredParentLinked ==
    (IsUpdate(last) /\ (last.began => last.cause # StoreFailure)) =>
        \A i \in UnderStoredParent(doc, pre) :
            /\ last.outcome = "ok"
            /\ LinkedToStoredParent(store, doc.tns[i])

\* update_structure returned on a document with b under the stored a, a not
\* in the document: b is not in the sorter's list and not in the store.
C34_ExcludedAsOrphan ==
    /\ UpdateSucceeded /\ UnderStoredParent(doc, pre) # {}
    /\ \E i \in UnderStoredParent(doc, pre) :
          /\ doc.tns[i].key \notin KeysOf(last.sorted)
          /\ doc.tns[i].key \notin Keys(store.tn)
          /\ ParentKey(doc.tns[i]) \in Keys(store.tn)

\* The same document from a file: the validator rejects it and nothing is
\* written.
C34_RejectedByValidator ==
    /\ last.op = "update_from_file" /\ last.outcome = "DBParsingError"
    /\ docErr.kind = "invalid_parent_reference"
    /\ UnderStoredParent(doc, pre) # {} /\ store = pre

\* ----------------------------------------------------------------- C35

\* The call before read the children of an id that no thing node is stored
\* under.
ReadUnknownParent(ops) ==
    /\ last.op \in ops
    /\ last.arg # None /\ ~ \E r \in store.tn : r.id = last.arg

RepliedEmpty ==
    last.outcome = "ok" /\ last.nodes = {} /\ last.sources = {} /\ last.sinks = {}

\* C35: get_structure and get_children called with a parent id that matches
\* no stored thing node return empty thing node, source and sink lists and
\* signal no error.
C35_UnknownParentEmpty ==
    ReadUnknownParent({"get_children", "get_structure"}) => RepliedEmpty

\* get_children of structure_service raised DBNotFoundError for an unknown
\* id on a store with thing nodes.
C35_GetChildrenRaised ==
    /\ ReadUnknownParent({"get_children"}) /\ store.tn # {}
    /\ last.outcome = "DBNotFoundError"

\* get_structure let the DBNotFoundError through.
C35_GetStructureRaised ==
    /\ ReadUnknownParent({"get_structure"}) /\ store.tn # {}
    /\ last.outcome = "DBNotFoundError"

\* orm_get_children replied with three empty lists.
C35_OrmVariantEmpty ==
    /\ ReadUnknownParent({"orm_get_children"}) /\ store.tn # {} /\ RepliedEmpty


\* ---------------------------------------------------------------- C36

PositionOf(tns, key) == CHOOSE i \in DOMAIN tns : tns[i].key = key

IsRoot(tn) == tn.parent_ext = NoParent

\* Two returned nodes with the same parent_node_id, the earlier one with the
\* greater external_id.
DescendingPair(i, j) ==
    /\ i < j
    /\ last.sorted[i].parent_node_id = last.sorted[j].parent_node_id
    /\ ExtRank(last.sorted[i].key[2]) > ExtRank(last.sorted[j].key[2])

\* C36 as stated: in the list returned by sort_thing_nodes any two nodes with
\* the same parent_node_id, the roots with parent_node_id None included, appear
\* in ascending external_id order.
C36_SiblingsAscending ==
    last.op = "sort" =>
        \A i, j \in DOMAIN last.sorted : ~DescendingPair(i, j)

\* C36 amended: the children of one parent appear in ascending external_id
\* order whatever their order in the input, and the roots appear in the order
\* of the input list.
C36_ChildrenAscendingRootsAsGiven ==
    last.op = "sort" =>
        \A i, j \in DOMAIN last.sorted :
            /\ (DescendingPair(i, j) => IsRoot(last.sorted[i]) /\ IsRoot(last.sorted[j]))
            /\ (i < j /\ IsRoot(last.sorted[i]) /\ IsRoot(last.sorted[j])
                    => PositionOf(doc.tns, last.sorted[i].key)
                           < PositionOf(doc.tns, last.sorted[j].key))

\* Two children of one parent given in descending order were returned.
C36_Witness ==
    /\ last.op = "sort"
    /\ \E i, j \in DOMAIN last.sorted :
        /\ i < j
        /\ ~IsRoot(last.sorted[i])
        /\ last.sorted[i].parent_node_id = last.sorted[j].parent_node_id
        /\ PositionOf(doc.tns, last.sorted[i].key) > PositionOf(doc.tns, last.sorted[j].key)

\* Two roots given in descending order were returned in that order.
C36_RootsDescending ==
    /\ last.op = "sort"
    /\ \E i, j \in DOMAIN last.sorted :
        DescendingPair(i, j) /\ IsRoot(last.sorted[i]) /\ IsRoot(last.sorted[j])


\* ---------------------------------------------------------------- C37

\* The thing nodes of the last call whose element type key was not in the map.
TypeMissing ==
    {i \in DOMAIN last.before :
        /\ last.before[i].et_ext # ""
        /\ \A e \in store.et : e.key # ElementTypeKey(last.before[i])}

\* C37 as stated: populate_element_type_ids raises ValueError when the
\* (stakeholder_key, element_type_external_id) of a thing node is not in the
\* element type map, and leaves that node's element_type_id unchanged.
C37_MissingTypeRaises ==
    last.op = "populate" /\ TypeMissing # {} =>
        /\ last.outcome = "ValueError"
        /\ \A i \in TypeMissing : doc.tns[i].et_id = last.before[i].et_id

\* A call with a missing element type key returned normally: the node keeps
\* its element_type_id and only the warning names it.
C37_WarnedOnly ==
    /\ last.op = "populate"
    /\ TypeMissing # {}
    /\ last.outcome = "ok"
    /\ \A i \in TypeMissing :
        /\ doc.tns[i].et_id = last.before[i].et_id
        /\ doc.tns[i].key \in last.warned


\* ---------------------------------------------------------------- C38

\* Following the parent references from tn through thing_node_map ends at a
\* node without parent reference within fuel steps.
RECURSIVE LeadsToRoot(_, _, _)
LeadsToRoot(tns, tn, fuel) ==
    IF tn.parent_ext = NoParent THEN TRUE
    ELSE IF fuel = 0 THEN FALSE
    ELSE /\ ParentTn(tns, tn) # <<>>
         /\ LeadsToRoot(tns, ParentTn(tns, tn)[1], fuel - 1)

TimesReturned(tn) == Cardinality({i \in DOMAIN last.sorted : last.sorted[i] = tn})

\* The traversal came to its end and the list was returned.
Returned == last.op = "sorted"

\* The returned list is the one the loop builds without being cut short.
TraversalAgrees ==
    Returned =>
        last.sorted = FlattenLevels(doc.tns, RootNodes(doc.tns))

\* C38 as stated: sort_thing_nodes returns every input node at most once, and
\* returns a node exactly when following the parent references inside the
\* input list leads to a node without parent reference.
C38_OutputMembership ==
    Returned =>
        \A i \in DOMAIN doc.tns :
            /\ TimesReturned(doc.tns[i]) <= 1
            /\ TimesReturned(doc.tns[i]) >= 1
                   <=> LeadsToRoot(doc.tns, doc.tns[i], Len(doc.tns))

\* An input node was returned twice.
C38_ReturnedTwice ==
    /\ Returned
    /\ \E i \in DOMAIN doc.tns : TimesReturned(doc.tns[i]) > 1

\* ---------------------------------------------------------------- C39

\* C39 as stated: sort_thing_nodes terminates for every finite input list.
C39_Terminates == <>Returned

\* The loop is at a level that a traversal visiting each node once cannot
\* have, with nodes still queued: a node is being visited again.
C39_VisitedAgain ==
    /\ last.op = "bfs"
    /\ last.queue # <<>>
    /\ last.level >= Len(doc.tns)
    /\ \E i \in DOMAIN doc.tns : TimesReturned(doc.tns[i]) > 1

====
